---------------------------- MODULE Spec2Model ----------------------------
(***************************************************************************)
(* A model of tablespec's regex-to-sample-value engine,                    *)
(* GXConstraintExtractor.generate_value_from_regex and its helper          *)
(* _generate_char_from_class (src/src/tablespec/gx_constraint_extractor.py)*)
(*                                                                         *)
(* A Python string is a sequence of one-character strings.  Indices keep   *)
(* the source's 0-based convention: At(s, i) is s[i], Slice(s, a, b) is    *)
(* s[a:b], Find(s, c, start) is s.find(c, start).  Every draw from the     *)
(* random module is a nondeterministic choice over its possible outcomes.  *)
(***************************************************************************)
EXTENDS Integers, Sequences, FiniteSets, TLC

(***************************************************************************)
(* Bounds of the model.                                                    *)
(***************************************************************************)
\* Patterns are concatenations of at most MaxTokens tokens (see Tokens).
MaxTokens == 2
\* Each of string.ascii_uppercase, string.ascii_lowercase and the digits
\* 0..9 is cut to its first PoolBound characters.
PoolBound == 2
\* [A-Z]{n} is tried for n in 0..MaxCount.
MaxCount == 5
\* \d{n,m} and [A-Z]{n,m} are tried for 0 <= n <= m <= MaxRange.
MaxRange == 4
\* [0-9]{n,} and \d{n,} are tried for n in 0..MaxOpen.
MaxOpen == 3
\* A suite lists at most MaxRules expectations (see Rules, Malformed).
MaxRules == 2
\* A description is put together from at most MaxPieces pieces.
MaxPieces == 3
\* A UMF document lists at most MaxColumns columns (see UmfColumns).
MaxColumns == 2

(***************************************************************************)
(* Numbers written in the source.                                          *)
(***************************************************************************)
\* a variant: a window one wider
OpenWindowSix == 5 + 1

\* random.randint(min_val, min_val + 5)
OpenWindow == 5
\* random.randint(3, 10) after a class or \d
PlusMin == 3

PlusMax == 10

\* random.randint(1, 3) after a group
GroupPlusMin == 1

GroupPlusMax == 3

(***************************************************************************)
(* Python string primitives.                                               *)
(***************************************************************************)
Min(a, b) == IF a < b THEN a ELSE b

\* s[i]
At(s, i) == s[i + 1]

\* s[a:b] for 0 <= a
Slice(s, a, b) == SubSeq(s, a + 1, Min(b, Len(s)))

\* s.find(c, start) for a one-character c: the lowest index >= start, or -1
Find(s, c, start) ==
    LET hits == {k \in start..(Len(s) - 1) : At(s, k) = c}
    IN  IF hits = {} THEN -1 ELSE CHOOSE k \in hits : \A h \in hits : k <= h

\* sub in s
Contains(s, sub) ==
    \E k \in 0..(Len(s) - Len(sub)) : Slice(s, k, k + Len(sub)) = sub

\* s.strip(chars): every leading and trailing character of the set goes
StripChars(s, chars) ==
    LET keep == {k \in 1..Len(s) : s[k] \notin chars}
    IN  IF keep = {} THEN <<>>
        ELSE LET lo == CHOOSE k \in keep : \A h \in keep : k <= h
                 hi == CHOOSE k \in keep : \A h \in keep : k >= h
             IN  SubSeq(s, lo, hi)

\* the whitespace s.strip() and int() remove, as far as the model writes it
Whitespace == {" "}

\* s.split(","): the pieces between the commas, empty ones kept
RECURSIVE SplitComma(_)
SplitComma(s) ==
    LET k == Find(s, ",", 0)
    IN  IF k = -1 THEN <<s>>
        ELSE <<Slice(s, 0, k)>> \o SplitComma(Slice(s, k + 1, Len(s)))

DecimalDigits == <<"0", "1", "2", "3", "4", "5", "6", "7", "8", "9">>

DigitChars == {DecimalDigits[k] : k \in 1..10}

DigitValue(c) == (CHOOSE k \in 1..10 : DecimalDigits[k] = c) - 1

\* the text int() reads after removing the whitespace around it
IntBody(s) ==
    LET t == StripChars(s, Whitespace)
    IN  IF Len(t) > 0 /\ t[1] \in {"+", "-"} THEN Tail(t) ELSE t

\* int(s) does not raise ValueError: an optional sign, then decimal digits,
\* single underscores allowed between two digits
IntParses(s) ==
    LET u == IntBody(s)
    IN  /\ Len(u) > 0
        /\ \A k \in 1..Len(u) :
              \/ u[k] \in DigitChars
              \/ /\ u[k] = "_"
                 /\ 1 < k
                 /\ k < Len(u)
                 /\ u[k - 1] \in DigitChars
                 /\ u[k + 1] \in DigitChars

RECURSIVE DigitsValue(_, _)
DigitsValue(u, acc) ==
    IF u = <<>> THEN acc
    ELSE IF Head(u) = "_" THEN DigitsValue(Tail(u), acc)
    ELSE DigitsValue(Tail(u), 10 * acc + DigitValue(Head(u)))

\* int(s) when it parses
IntValue(s) ==
    LET t == StripChars(s, Whitespace)
        v == DigitsValue(IntBody(s), 0)
    IN  IF Len(t) > 0 /\ t[1] = "-" THEN 0 - v ELSE v

(***************************************************************************)
(* The character pools of _generate_char_from_class.                       *)
(***************************************************************************)
UpperLetters ==
    <<"A", "B", "C", "D", "E", "F", "G", "H", "I", "J", "K", "L", "M",
      "N", "O", "P", "Q", "R", "S", "T", "U", "V", "W", "X", "Y", "Z">>

LowerLetters ==
    <<"a", "b", "c", "d", "e", "f", "g", "h", "i", "j", "k", "l", "m",
      "n", "o", "p", "q", "r", "s", "t", "u", "v", "w", "x", "y", "z">>

\* string.ascii_uppercase, cut to PoolBound characters
ascii_uppercase == {UpperLetters[k] : k \in 1..Min(PoolBound, 26)}

\* string.ascii_lowercase, cut to PoolBound characters
ascii_lowercase == {LowerLetters[k] : k \in 1..Min(PoolBound, 26)}

\* str(random.randint(0, 9)) and string.digits, cut to PoolBound characters
digits == {DecimalDigits[k] : k \in 1..Min(PoolBound, 10)}

\* the characters of a string, as random.choice(s) can return them
CharsOf(s) == {s[k] : k \in 1..Len(s)}

RangeUpper == <<"A", "-", "Z">>

RangeLower == <<"a", "-", "z">>

RangeDigit == <<"0", "-", "9">>

\* the pool of the combined-class part of _generate_char_from_class
CombinedPool(char_class) ==
    (IF Contains(char_class, RangeUpper) \/ Contains(char_class, RangeLower)
        THEN ascii_uppercase \cup ascii_lowercase ELSE {})
    \cup
    (IF Contains(char_class, RangeDigit) THEN digits ELSE {})

\* a variant: the fallback returns the first character of the body
GenerateCharFromClassFirst(char_class) ==
    IF Contains(char_class, RangeUpper) THEN ascii_uppercase
    ELSE IF Contains(char_class, RangeLower) THEN ascii_lowercase
    ELSE IF Contains(char_class, RangeDigit) THEN digits
    ELSE IF CombinedPool(char_class) # {} THEN CombinedPool(char_class)
    ELSE IF char_class # <<>> THEN {char_class[1]}
    ELSE {"X"}

\* _generate_char_from_class(char_class): the characters it can return
GenerateCharFromClass(char_class) ==
    IF Contains(char_class, RangeUpper) THEN ascii_uppercase
    ELSE IF Contains(char_class, RangeLower) THEN ascii_lowercase
    ELSE IF Contains(char_class, RangeDigit) THEN digits
    ELSE IF CombinedPool(char_class) # {} THEN CombinedPool(char_class)
    ELSE IF char_class # <<>> THEN CharsOf(char_class)
    ELSE {"X"}

(***************************************************************************)
(* Quantifier resolution.                                                  *)
(***************************************************************************)
\* a variant: the upper bound is left out, as random.randrange would
RandintHalfOpen(a, b) == a..(b - 1)

\* random.randint(a, b): an empty range raises ValueError
RandintRaises(a, b) == a > b

RandintValues(a, b) == a..b

\* The body of the try block of a brace quantifier: the outcomes of reading
\* quant_str, each either a repetition count or a raised ValueError.
TryBraceQuantifier(quant_str) ==
    LET ok(n) == [raised |-> FALSE, repetition |-> n]
        fail  == [raised |-> TRUE, repetition |-> 1]
        parts == SplitComma(quant_str)
    IN  IF "," \in CharsOf(quant_str)
        THEN IF ~IntParses(parts[1]) THEN {fail}
             ELSE LET min_val == IntValue(parts[1])
                  IN  IF Len(parts) > 1 /\ StripChars(parts[2], Whitespace) # <<>>
                      THEN IF ~IntParses(parts[2]) THEN {fail}
                           ELSE LET max_val == IntValue(parts[2])
                                IN  IF RandintRaises(min_val, max_val) THEN {fail}
                                    ELSE {ok(n) : n \in RandintValues(min_val, max_val)}
                      ELSE {ok(n) : n \in RandintValues(min_val, min_val + OpenWindow)}
        ELSE IF IntParses(quant_str) THEN {ok(IntValue(quant_str))} ELSE {fail}

\* a variant: after a ValueError the unit is not emitted at all
CatchValueErrorNoUnit(t, next_pos, end_brace) ==
    IF t.raised
    THEN [repetition |-> 0, i |-> next_pos, exc |-> "None"]
    ELSE [repetition |-> t.repetition, i |-> end_brace + 1, exc |-> "None"]

\* a variant: the ValueError is not caught and leaves the call
CatchNothing(t, next_pos, end_brace) ==
    IF t.raised
    THEN [repetition |-> 1, i |-> next_pos, exc |-> "ValueError"]
    ELSE [repetition |-> t.repetition, i |-> end_brace + 1, exc |-> "None"]

\* a variant: after a good quantifier the cursor stops on the closing brace
CatchValueErrorKeepsBrace(t, next_pos, end_brace) ==
    IF t.raised
    THEN [repetition |-> 1, i |-> next_pos, exc |-> "None"]
    ELSE [repetition |-> t.repetition, i |-> end_brace, exc |-> "None"]

\* try: ... i = end_brace + 1 / except ValueError: i = next_pos
CatchValueError(t, next_pos, end_brace) ==
    IF t.raised
    THEN [repetition |-> 1, i |-> next_pos, exc |-> "None"]
    ELSE [repetition |-> t.repetition, i |-> end_brace + 1, exc |-> "None"]

\* The quantifier after a bracket class or \d, read at next_pos: the
\* repetition count, the cursor after it, and the exception that escapes.
QuantifierOutcomes(pattern, next_pos) ==
    LET none == {[repetition |-> 1, i |-> next_pos, exc |-> "None"]}
    IN  IF next_pos < Len(pattern)
        THEN IF At(pattern, next_pos) = "{"
             THEN LET end_brace == Find(pattern, "}", next_pos)
                  IN  IF end_brace # -1
                      THEN {CatchValueError(t, next_pos, end_brace) :
                              t \in TryBraceQuantifier(
                                      Slice(pattern, next_pos + 1, end_brace))}
                      ELSE none
             ELSE IF At(pattern, next_pos) = "+"
             THEN {[repetition |-> n, i |-> next_pos + 1, exc |-> "None"] :
                     n \in RandintValues(PlusMin, PlusMax)}
             ELSE IF At(pattern, next_pos) = "?"
             THEN {[repetition |-> n, i |-> next_pos + 1, exc |-> "None"] :
                     n \in {0, 1}}
             ELSE none
        ELSE none

\* a variant: the quantifier after a group is read as after a class
GroupQuantifierAsClass(pattern, next_pos) ==
    QuantifierOutcomes(pattern, next_pos)

\* The quantifier after a group, read at next_pos: only + and ? are read.
GroupQuantifierOutcomes(pattern, next_pos) ==
    LET none == {[repetition |-> 1, i |-> next_pos, exc |-> "None"]}
    IN  IF next_pos < Len(pattern)
        THEN IF At(pattern, next_pos) = "+"
             THEN {[repetition |-> n, i |-> next_pos + 1, exc |-> "None"] :
                     n \in RandintValues(GroupPlusMin, GroupPlusMax)}
             ELSE IF At(pattern, next_pos) = "?"
             THEN {[repetition |-> n, i |-> next_pos + 1, exc |-> "None"] :
                     n \in {0, 1}}
             ELSE none
        ELSE none

\* for _ in range(repetition): result.append(<one draw from pool>)
Draws(repetition, pool) == [1..repetition -> pool]

\* for _ in range(repetition): result.append(group_result)
RECURSIVE Repeat(_, _)
Repeat(s, n) == IF n <= 0 THEN <<>> ELSE s \o Repeat(s, n - 1)

(***************************************************************************)
(* The patterns the model calls generate_value_from_regex with.            *)
(***************************************************************************)
Tokens ==
    { <<"\\">>, <<".">>, <<"d">>, <<"[">>, <<"]">>, <<"(">>, <<")">>,
      <<"{">>, <<"}">>, <<",">>, <<"?">>, <<"^">>, <<"$">>, <<"*">>,
      <<"|">>, <<"-">>, <<"A">>, <<"2">>, <<" ">>,
      <<"[", "A", "-", "Z", "]">>,
      <<"[", "A", "-", "C", "]">>,
      <<"[", "0", "-", "9", "]">>,
      <<"[", "a", "-", "z", "]">>,
      <<"[", "A", "B", "]">>,
      <<"[", "A", "-", "Z", "a", "-", "z", "0", "-", "9", "]">>,
      <<"\\", "d">>,
      <<"\\", ".">>,
      <<"(", "A", ")">>,
      <<"{", "2", "}">>,
      <<"{", "1", ",", "2", "}">>,
      <<"{", "2", ",", "1", "}">>,
      <<"{", "x", "}">> }

RECURSIVE Flatten(_)
Flatten(ts) == IF ts = <<>> THEN <<>> ELSE Head(ts) \o Flatten(Tail(ts))

TokenFamily ==
    {Flatten(ts) : ts \in UNION {[1..n -> Tokens] : n \in 0..MaxTokens}}

\* the decimal numeral of n >= 0
RECURSIVE Dec(_)
Dec(n) ==
    IF n < 10 THEN <<DecimalDigits[n + 1]>>
    ELSE Dec(n \div 10) \o <<DecimalDigits[(n % 10) + 1]>>

Anchored(p) == <<"^">> \o p \o <<"$">>

ClassAZ == <<"[", "A", "-", "Z", "]">>

Class09 == <<"[", "0", "-", "9", "]">>

ShorthandD == <<"\\", "d">>

Exactly(n) == <<"{">> \o Dec(n) \o <<"}">>

Between(n, m) == <<"{">> \o Dec(n) \o <<",">> \o Dec(m) \o <<"}">>

AtLeast(n) == <<"{">> \o Dec(n) \o <<",", "}">>

\* [A-Z]{n}, bare and anchored
CountFamily ==
    UNION {{ClassAZ \o Exactly(n), Anchored(ClassAZ \o Exactly(n))} :
             n \in 0..MaxCount}

RangePairs == {nm \in (0..MaxRange) \X (0..MaxRange) : nm[1] <= nm[2]}

\* \d{n,m} bare and anchored, and [A-Z]{n,m}
RangeFamily ==
    UNION {{ShorthandD \o Between(nm[1], nm[2]),
            Anchored(ShorthandD \o Between(nm[1], nm[2])),
            ClassAZ \o Between(nm[1], nm[2])} : nm \in RangePairs}

\* [0-9]{n,} bare and anchored, and \d{n,}
OpenFamily ==
    UNION {{Class09 \o AtLeast(n), Anchored(Class09 \o AtLeast(n)),
            ShorthandD \o AtLeast(n)} : n \in 0..MaxOpen}

\* \d{3}\.\d{2}
DecimalPattern ==
    ShorthandD \o Exactly(3) \o <<"\\", ".">> \o ShorthandD \o Exactly(2)

LiteralPattern == <<"A", "B", "C", "-", "1", "2", "3">>

Scenarios ==
    { DecimalPattern, Anchored(DecimalPattern),
      LiteralPattern,
      <<"^", "A", "?", "$">>,
      ShorthandD \o <<"+">>,
      ClassAZ \o <<"+">>,
      <<"(", "A", ")", "+">>,
      <<"(", "\\", "d", ")", "+">>,
      <<"(", "\\", "d", ")", "{", "2", "}">>,
      <<"^", "(", "A", "B", ")", "{", "2", "}", "$">>,
      <<"(", "[", "A", "-", "Z", "]", "{", "2", "}", ")", "?">>,
      <<"(", "(", "A", ")", "B", ")">>,
      <<"[", "]", "{", "1", "0", "}">>,
      ClassAZ \o <<"{", "+", "2", "}">>,
      ClassAZ \o <<"{", " ", "2", " ", "}">>,
      ClassAZ \o <<"{", "-", "2", "}">>,
      ClassAZ \o <<"{", "1", ",", " ", "}">>,
      ClassAZ \o <<"{", "1", ",", "2", ",", "0", "}">>,
      ClassAZ \o <<"{", "1", "_", "0", "}">>,
      ShorthandD \o <<"{", "2">>,
      ShorthandD \o <<"{", "}">>,
      ShorthandD \o <<"{", ",", "2", "}">>,
      ClassAZ \o <<"{", "1", ",", "x", "}">>,
      ShorthandD \o <<"{", "1", ",", "2", ",", "x", "}">>,
      <<"[", "A", "B", "C">>,
      <<"(", "A", "B", "C">> }

\* \d{n,m} and [A-Z]{n,m} with n > m
EmptyRangeFamily ==
    UNION {{ShorthandD \o Between(nm[1], nm[2]),
            ClassAZ \o Between(nm[1], nm[2])} :
             nm \in {nm \in (0..MaxRange) \X (0..MaxRange) : nm[1] > nm[2]}}

Patterns ==
    TokenFamily \cup CountFamily \cup RangeFamily \cup OpenFamily
       \cup EmptyRangeFamily \cup Scenarios

(***************************************************************************)
(* The state: the call's argument, the stack of active calls of            *)
(* generate_value_from_regex (the last frame is the running one), and what *)
(* the outermost call returned or raised.                                  *)
(***************************************************************************)
VARIABLES regex_pattern, stack, pc, retval, exception

vars == <<regex_pattern, stack, pc, retval, exception>>

AnchorChars == {"^", "$"}

\* a variant: at most one "^" is removed in front and one "$" behind
NewFrameStripOnce(arg) ==
    LET a == IF Len(arg) > 0 /\ arg[1] = "^" THEN Tail(arg) ELSE arg
        b == IF Len(a) > 0 /\ a[Len(a)] = "$"
             THEN SubSeq(a, 1, Len(a) - 1) ELSE a
    IN  [pattern |-> b, i |-> 0, result |-> <<>>, iters |-> 0]

\* pattern = regex_pattern.strip("^$"); result = []; i = 0
NewFrame(arg) ==
    [pattern |-> StripChars(arg, AnchorChars), i |-> 0, result |-> <<>>,
     iters |-> 0]

Init ==
    /\ regex_pattern \in Patterns
    /\ stack = <<NewFrame(regex_pattern)>>
    /\ pc = "running"
    /\ retval = <<>>
    /\ exception = "None"

Top == stack[Len(stack)]

\* while i < len(pattern), in the running call
InLoop == pc = "running" /\ Top.i < Len(Top.pattern)

\* one iteration ends: the cursor moves to new_i and emitted joins result
Advance(new_i, emitted) ==
    /\ stack' = [stack EXCEPT ![Len(stack)] =
                   [@ EXCEPT !.i = new_i,
                             !.result = @ \o emitted,
                             !.iters = @ + 1]]
    /\ UNCHANGED <<regex_pattern, pc, retval, exception>>

\* an exception leaves the iteration: every active call is abandoned
Raise(exc) ==
    /\ stack' = <<>>
    /\ pc' = "raised"
    /\ exception' = exc
    /\ UNCHANGED <<regex_pattern, retval>>

\* one iteration ends with outcome q of a quantifier and the text emitted
Finish(q, emitted) ==
    IF q.exc # "None" THEN Raise(q.exc) ELSE Advance(q.i, emitted)

\* a variant: any backslash starts a two-character escape
AtEscapedPair(f) ==
    /\ f.i < Len(f.pattern)
    /\ At(f.pattern, f.i) = "\\"

\* if i + 1 < len(pattern) and pattern[i] == "\\" and pattern[i + 1] == "."
AtEscapedDot(f) ==
    /\ f.i + 1 < Len(f.pattern)
    /\ At(f.pattern, f.i) = "\\"
    /\ At(f.pattern, f.i + 1) = "."

\* a variant: the escaped dot is consumed and nothing is emitted
EscapedDotDropped ==
    /\ InLoop
    /\ AtEscapedDot(Top)
    /\ Advance(Top.i + 2, <<>>)

EscapedDot ==
    /\ InLoop
    /\ AtEscapedDot(Top)
    /\ Advance(Top.i + 2, <<".">>)

\* a variant: continue without i += 1
UnterminatedClassStuck ==
    /\ InLoop
    /\ ~AtEscapedDot(Top)
    /\ At(Top.pattern, Top.i) = "["
    /\ Find(Top.pattern, "]", Top.i) = -1
    /\ Advance(Top.i, <<>>)

\* if pattern[i] == "[" with no "]" after it: i += 1; continue
UnterminatedClass ==
    /\ InLoop
    /\ ~AtEscapedDot(Top)
    /\ At(Top.pattern, Top.i) = "["
    /\ Find(Top.pattern, "]", Top.i) = -1
    /\ Advance(Top.i + 1, <<>>)

\* if pattern[i] == "[": the class, its quantifier, repetition draws
CharClass ==
    /\ InLoop
    /\ ~AtEscapedDot(Top)
    /\ At(Top.pattern, Top.i) = "["
    /\ LET end_bracket == Find(Top.pattern, "]", Top.i)
           char_class == Slice(Top.pattern, Top.i + 1, end_bracket)
       IN  /\ end_bracket # -1
           /\ \E q \in QuantifierOutcomes(Top.pattern, end_bracket + 1) :
                \E cs \in Draws(q.repetition, GenerateCharFromClass(char_class)) :
                   Finish(q, cs)

\* elif pattern[i : i + 2] == r"\d": its quantifier, repetition digits
Shorthand ==
    /\ InLoop
    /\ ~AtEscapedDot(Top)
    /\ At(Top.pattern, Top.i) # "["
    /\ Slice(Top.pattern, Top.i, Top.i + 2) = <<"\\", "d">>
    /\ \E q \in QuantifierOutcomes(Top.pattern, Top.i + 2) :
         \E ds \in Draws(q.repetition, digits) :
            Finish(q, ds)

AtGroup(f) ==
    /\ ~AtEscapedDot(f)
    /\ At(f.pattern, f.i) = "("
    /\ Slice(f.pattern, f.i, f.i + 2) # <<"\\", "d">>

\* a variant: the "(" is paired with the last ")" of the pattern
GroupCallToLastParen ==
    /\ InLoop
    /\ AtGroup(Top)
    /\ LET closers == {k \in Top.i..(Len(Top.pattern) - 1) :
                         At(Top.pattern, k) = ")"}
           end_paren == CHOOSE k \in closers : \A j \in closers : j <= k
           group_content == Slice(Top.pattern, Top.i + 1, end_paren)
       IN  /\ closers # {}
           /\ stack' = [stack EXCEPT ![Len(stack)] = [@ EXCEPT !.iters = @ + 1]]
                         \o <<NewFrame(group_content)>>
    /\ UNCHANGED <<regex_pattern, pc, retval, exception>>

\* elif pattern[i] == "(" with a ")" after it: the recursive call starts
GroupCall ==
    /\ InLoop
    /\ AtGroup(Top)
    /\ LET end_paren == Find(Top.pattern, ")", Top.i)
           group_content == Slice(Top.pattern, Top.i + 1, end_paren)
       IN  /\ end_paren # -1
           /\ stack' = [stack EXCEPT ![Len(stack)] = [@ EXCEPT !.iters = @ + 1]]
                         \o <<NewFrame(group_content)>>
    /\ UNCHANGED <<regex_pattern, pc, retval, exception>>

\* the recursive call returns group_result; the caller reads the group's
\* quantifier and appends group_result repetition times
GroupReturn ==
    /\ pc = "running"
    /\ Len(stack) > 1
    /\ ~(Top.i < Len(Top.pattern))
    /\ LET group_result == Top.result
           caller == stack[Len(stack) - 1]
           end_paren == Find(caller.pattern, ")", caller.i)
       IN  \E q \in GroupQuantifierOutcomes(caller.pattern, end_paren + 1) :
              /\ stack' = [SubSeq(stack, 1, Len(stack) - 1)
                             EXCEPT ![Len(stack) - 1] =
                               [@ EXCEPT !.i = q.i,
                                         !.result = @ \o Repeat(group_result,
                                                                q.repetition)]]
    /\ UNCHANGED <<regex_pattern, pc, retval, exception>>

\* a variant: the unclosed "(" is emitted as a literal
UnterminatedGroupEmitted ==
    /\ InLoop
    /\ AtGroup(Top)
    /\ Find(Top.pattern, ")", Top.i) = -1
    /\ Advance(Top.i + 1, <<"(">>)

\* elif pattern[i] == "(" with no ")" after it: i += 1
UnterminatedGroup ==
    /\ InLoop
    /\ AtGroup(Top)
    /\ Find(Top.pattern, ")", Top.i) = -1
    /\ Advance(Top.i + 1, <<>>)

\* a variant: | is not skipped
SkippedCharsNoPipe == {".", "*"}

\* a variant: ? is skipped too
SkippedCharsAndQuestion == {".", "*", "|", "?"}

SkippedChars == {".", "*", "|"}

\* none of the branches for "[", \d and "(" is taken
AtPlainChar(f) ==
    /\ ~AtEscapedDot(f)
    /\ At(f.pattern, f.i) \notin {"[", "("}
    /\ Slice(f.pattern, f.i, f.i + 2) # <<"\\", "d">>

\* elif pattern[i] in ".*|": i += 1
SkipMeta ==
    /\ InLoop
    /\ AtPlainChar(Top)
    /\ At(Top.pattern, Top.i) \in SkippedChars
    /\ Advance(Top.i + 1, <<>>)

\* else: result.append(pattern[i]); i += 1
Literal ==
    /\ InLoop
    /\ AtPlainChar(Top)
    /\ At(Top.pattern, Top.i) \notin SkippedChars
    /\ Advance(Top.i + 1, <<At(Top.pattern, Top.i)>>)

\* return "".join(result), from the outermost call
Return ==
    /\ pc = "running"
    /\ Len(stack) = 1
    /\ ~(Top.i < Len(Top.pattern))
    /\ retval' = Top.result
    /\ pc' = "done"
    /\ stack' = <<>>
    /\ UNCHANGED <<regex_pattern, exception>>

Next ==
    \/ EscapedDot
    \/ UnterminatedClass
    \/ CharClass
    \/ Shorthand
    \/ GroupCall
    \/ GroupReturn
    \/ UnterminatedGroup
    \/ SkipMeta
    \/ Literal
    \/ Return

Spec == Init /\ [][Next]_vars

(***************************************************************************)
(* Vocabulary of the properties.                                           *)
(***************************************************************************)
Done == pc = "done"

\* the pattern as the scanning loop sees it
Stripped(p) == StripChars(p, AnchorChars)

UpperCaseLetters == CharsOf(UpperLetters)

AllIn(s, chars) == \A k \in 1..Len(s) : s[k] \in chars

\* the step completes an iteration of the frame at depth k
CompletesIteration(k) ==
    /\ k >= 1
    /\ k = Len(stack')
    /\ \/ Len(stack) = k /\ stack'[k].iters = stack[k].iters + 1
       \/ Len(stack) = k + 1

(***************************************************************************)
(* C1.  generate_value_from_regex terminates: every completed iteration of *)
(* the scanning loop moves the cursor forward by at least one, whichever   *)
(* branch is taken, so a call runs at most len(pattern) iterations at its  *)
(* own level.  (A frame waiting for a group's recursive call has begun an  *)
(* iteration whose cursor move is still to come.)                          *)
(***************************************************************************)
C1_IterationsBounded ==
    \A k \in 1..Len(stack) :
       /\ stack[k].iters <= Len(stack[k].pattern)
       /\ stack[k].iters <= stack[k].i + (IF k = Len(stack) THEN 0 ELSE 1)

C1_StepAdvances ==
    \A k \in 1..Len(stack) :
       CompletesIteration(k) => stack'[k].i >= stack[k].i + 1

C1_Terminates == []C1_IterationsBounded /\ [][C1_StepAdvances]_vars

\* the loop has run over "[(" : two malformed openers, two iterations
C1_Witness ==
    /\ pc = "running"
    /\ Len(stack) = 1
    /\ Top.pattern = <<"[", "(">>
    /\ Top.i = 2
    /\ Top.iters = 2

(***************************************************************************)
(* C2.  No exception leaves generate_value_from_regex and what it returns  *)
(* is a string, also for unterminated openers, brace bodies that are empty *)
(* or not integers, and {n,m} with n > m.                                  *)
(***************************************************************************)
C2_NeverRaises ==
    /\ pc # "raised"
    /\ exception = "None"
    /\ Done => AllIn(retval, STRING)

\* [A-Z]{2,1}: random.randint(2, 1) raised inside the try block
C2_Witness ==
    /\ Done
    /\ regex_pattern = ClassAZ \o <<"{", "2", ",", "1", "}">>
    /\ Len(retval) = 6

(***************************************************************************)
(* Standard regular-expression semantics of the supported subset, used to  *)
(* state C3.  A supported pattern is a sequence of units: a bare literal   *)
(* character, \. , or a unit that takes a quantifier: \d, a bracket class  *)
(* of ranges and listed characters, or a parenthesized group of a          *)
(* supported pattern, optionally followed by {n}, {n,m} with n <= m, {n,}, *)
(* + or ?.                                                                 *)
(***************************************************************************)
\* the characters of the model in ASCII order
AsciiOrder ==
    <<" ", "$", "(", ")", "*", "+", ",", "-", ".">> \o DecimalDigits
    \o <<"?">> \o UpperLetters \o <<"[", "\\", "]", "^", "_">>
    \o LowerLetters \o <<"{", "|", "}">>

Ord(c) == CHOOSE k \in 1..Len(AsciiOrder) : AsciiOrder[k] = c

MetaChars ==
    {"\\", "[", "]", "(", ")", "{", "}", "+", "?", "*", ".", "|", "^", "$"}

\* the index of the ")" that balances the "(" at p[1], or 0
RECURSIVE ClosingParen(_, _, _)
ClosingParen(p, k, depth) ==
    IF k > Len(p) THEN 0
    ELSE IF p[k] = "(" THEN ClosingParen(p, k + 1, depth + 1)
    ELSE IF p[k] = ")"
         THEN IF depth = 1 THEN k ELSE ClosingParen(p, k + 1, depth - 1)
    ELSE ClosingParen(p, k + 1, depth)

\* the length of the atom that begins p, or 0 when none does
AtomLen(p) ==
    IF p = <<>> THEN 0
    ELSE IF p[1] = "\\"
         THEN IF Len(p) >= 2 /\ p[2] \in {".", "d"} THEN 2 ELSE 0
    ELSE IF p[1] = "[" THEN Find(p, "]", 0) + 1
    ELSE IF p[1] = "(" THEN ClosingParen(p, 1, 0)
    ELSE IF p[1] \in MetaChars THEN 0
    ELSE 1

Quantifiable(atom) == atom[1] \in {"[", "("} \/ atom = <<"\\", "d">>

PlainNumeral(u) == u # <<>> /\ AllIn(u, DigitChars)

\* a class body of ranges lo-hi with lo <= hi and listed characters
RECURSIVE ClassBodyOk(_)
ClassBodyOk(b) ==
    IF b = <<>> THEN TRUE
    ELSE IF b[1] \in {"\\", "[", "^"} THEN FALSE
    ELSE IF Len(b) >= 3 /\ b[2] = "-"
         THEN b[3] \notin {"\\", "[", "^"} /\ Ord(b[1]) <= Ord(b[3])
              /\ ClassBodyOk(SubSeq(b, 4, Len(b)))
    ELSE ClassBodyOk(Tail(b))

\* c is in the class with body b
RECURSIVE InClass(_, _)
InClass(b, c) ==
    IF b = <<>> THEN FALSE
    ELSE IF Len(b) >= 3 /\ b[2] = "-"
         THEN (Ord(b[1]) <= Ord(c) /\ Ord(c) <= Ord(b[3]))
              \/ InClass(SubSeq(b, 4, Len(b)), c)
    ELSE b[1] = c \/ InClass(Tail(b), c)

\* the quantifier that begins r: its bounds (hi = -1: unbounded), its
\* length, and whether it is one of the supported forms
QuantifierAt(r) ==
    LET one == [lo |-> 1, hi |-> 1, len |-> 0, ok |-> TRUE]
        bad == [lo |-> 1, hi |-> 1, len |-> 0, ok |-> FALSE]
    IN  IF r = <<>> THEN one
        ELSE IF r[1] = "+" THEN [lo |-> 1, hi |-> -1, len |-> 1, ok |-> TRUE]
        ELSE IF r[1] = "?" THEN [lo |-> 0, hi |-> 1, len |-> 1, ok |-> TRUE]
        ELSE IF r[1] = "{"
        THEN LET e == Find(r, "}", 0)
                 body == Slice(r, 1, e)
                 parts == SplitComma(body)
             IN  IF e = -1 THEN bad
                 ELSE IF Len(parts) = 1 /\ PlainNumeral(body)
                 THEN [lo |-> IntValue(body), hi |-> IntValue(body),
                       len |-> e + 1, ok |-> TRUE]
                 ELSE IF Len(parts) = 2 /\ PlainNumeral(parts[1])
                         /\ parts[2] = <<>>
                 THEN [lo |-> IntValue(parts[1]), hi |-> -1,
                       len |-> e + 1, ok |-> TRUE]
                 ELSE IF Len(parts) = 2 /\ PlainNumeral(parts[1])
                         /\ PlainNumeral(parts[2])
                         /\ IntValue(parts[1]) <= IntValue(parts[2])
                 THEN [lo |-> IntValue(parts[1]), hi |-> IntValue(parts[2]),
                       len |-> e + 1, ok |-> TRUE]
                 ELSE bad
        ELSE one

\* p is built only from the supported constructs
RECURSIVE Supported(_)
Supported(p) ==
    IF p = <<>> THEN TRUE
    ELSE LET a == AtomLen(p)
             atom == SubSeq(p, 1, a)
             q == IF a > 0 /\ Quantifiable(atom)
                  THEN QuantifierAt(SubSeq(p, a + 1, Len(p)))
                  ELSE [lo |-> 1, hi |-> 1, len |-> 0, ok |-> TRUE]
         IN  /\ a > 0
             /\ atom[1] = "[" => (a > 2 /\ ClassBodyOk(SubSeq(atom, 2, a - 1)))
             /\ atom[1] = "(" => Supported(SubSeq(atom, 2, a - 1))
             /\ q.ok
             /\ Supported(SubSeq(p, a + q.len + 1, Len(p)))

\* the positions of s that matching p can reach from a position of starts
RECURSIVE MatchEnds(_, _, _)
RECURSIVE AtomEnds(_, _, _)
RECURSIVE RepeatEnds(_, _, _, _)

AtomEnds(atom, s, starts) ==
    IF atom[1] = "(" THEN MatchEnds(SubSeq(atom, 2, Len(atom) - 1), s, starts)
    ELSE {t + 1 : t \in {u \in starts : u < Len(s) /\
            LET c == s[u + 1]
            IN  IF atom = <<"\\", ".">> THEN c = "."
                ELSE IF atom = <<"\\", "d">> THEN c \in DigitChars
                ELSE IF atom[1] = "["
                     THEN InClass(SubSeq(atom, 2, Len(atom) - 1), c)
                ELSE c = atom[1]}}

RepeatEnds(atom, s, starts, k) ==
    IF k = 0 THEN starts
    ELSE RepeatEnds(atom, s, AtomEnds(atom, s, starts), k - 1)

MatchEnds(p, s, starts) ==
    IF p = <<>> THEN starts
    ELSE LET a == AtomLen(p)
             atom == SubSeq(p, 1, a)
             q == IF Quantifiable(atom)
                  THEN QuantifierAt(SubSeq(p, a + 1, Len(p)))
                  ELSE [lo |-> 1, hi |-> 1, len |-> 0, ok |-> TRUE]
             hi == IF q.hi = -1 THEN q.lo + Len(s) + 1 ELSE q.hi
             after == UNION {RepeatEnds(atom, s, starts, k) : k \in q.lo..hi}
         IN  MatchEnds(SubSeq(p, a + q.len + 1, Len(p)), s, after)

\* s is a full match of the supported pattern p
FullMatch(p, s) == Len(s) \in MatchEnds(p, s, {0})

(***************************************************************************)
(* C3.  For every pattern built only from the supported constructs, every  *)
(* string generate_value_from_regex can return is a full match of the      *)
(* pattern under standard regular-expression semantics.                    *)
(***************************************************************************)
C3_SupportedOutputsMatch ==
    (Done /\ Supported(regex_pattern)) => FullMatch(regex_pattern, retval)

(***************************************************************************)
(* C4.  For [A-Z]{n}, anchored or not, every sample has length exactly n   *)
(* and holds uppercase ASCII letters only.                                 *)
(***************************************************************************)
CountShapes == {ClassAZ \o Exactly(n) : n \in 0..MaxCount}

C4_ExactCount ==
    (Done /\ Stripped(regex_pattern) \in CountShapes)
       => \A n \in 0..MaxCount :
             Stripped(regex_pattern) = ClassAZ \o Exactly(n)
                => /\ Len(retval) = n
                   /\ AllIn(retval, UpperCaseLetters)

C4_Witness ==
    /\ Done
    /\ regex_pattern = Anchored(ClassAZ \o Exactly(5))
    /\ Len(retval) = 5

(***************************************************************************)
(* C5.  For a class or \d followed by {n,m} with 0 <= n <= m the unit is   *)
(* emitted between n and m times, every count of that range can be drawn,  *)
(* and \d emits decimal digits only.                                       *)
(***************************************************************************)
RangeShapes ==
    UNION {{ShorthandD \o Between(nm[1], nm[2]),
            ClassAZ \o Between(nm[1], nm[2])} : nm \in RangePairs}

C5_Counts(p, n, m) ==
    /\ p = ShorthandD \o Between(n, m)
          => /\ n <= Len(retval)
             /\ Len(retval) <= m
             /\ AllIn(retval, DigitChars)
    /\ p = ClassAZ \o Between(n, m)
          => /\ n <= Len(retval)
             /\ Len(retval) <= m
             /\ AllIn(retval, UpperCaseLetters)

\* the counts the quantifier resolution can draw once the unit is read
CountsAt(f, next_pos) ==
    {q.repetition : q \in QuantifierOutcomes(f.pattern, next_pos)}

C5_EveryCountPossible(p, n, m) ==
    /\ p = ShorthandD \o Between(n, m) => CountsAt(Top, 2) = n..m
    /\ p = ClassAZ \o Between(n, m) => CountsAt(Top, 5) = n..m

C5_BoundedRange ==
    /\ (Done /\ Stripped(regex_pattern) \in RangeShapes)
          => \A nm \in RangePairs :
                C5_Counts(Stripped(regex_pattern), nm[1], nm[2])
    /\ (pc = "running" /\ Len(stack) = 1 /\ Top.i = 0
          /\ Top.pattern \in RangeShapes)
          => \A nm \in RangePairs :
                C5_EveryCountPossible(Top.pattern, nm[1], nm[2])

C5_Witness ==
    /\ Done
    /\ regex_pattern = Anchored(ShorthandD \o Between(2, 4))
    /\ Len(retval) = 3

(***************************************************************************)
(* C6.  For a class or \d followed by {n,} the unit is emitted between n   *)
(* and n + 5 times.                                                        *)
(***************************************************************************)
OpenShapes ==
    UNION {{Class09 \o AtLeast(n), ShorthandD \o AtLeast(n)} : n \in 0..MaxOpen}

C6_OpenRange ==
    (Done /\ Stripped(regex_pattern) \in OpenShapes)
       => \A n \in 0..MaxOpen :
             Stripped(regex_pattern) \in {Class09 \o AtLeast(n),
                                          ShorthandD \o AtLeast(n)}
                => /\ n <= Len(retval)
                   /\ Len(retval) <= n + 5
                   /\ AllIn(retval, DigitChars)

C6_Witness ==
    /\ Done
    /\ regex_pattern = Anchored(Class09 \o AtLeast(3))
    /\ Len(retval) = 8

(***************************************************************************)
(* C7.  For A?, anchored or not, the output is "" or "A": the ? makes the  *)
(* literal before it optional and is never emitted itself.                 *)
(***************************************************************************)
C7_OptionalLiteral ==
    (Done /\ Stripped(regex_pattern) = <<"A", "?">>)
       => retval \in {<<>>, <<"A">>}

(***************************************************************************)
(* C8.  A brace quantifier after a group repeats the group's generated     *)
(* string: (A){2} gives AA, (AB){2} gives ABAB, (\d){2} one digit twice,   *)
(* and no character of the quantifier is emitted.                          *)
(***************************************************************************)
C8_GroupBrace ==
    /\ (Done /\ Stripped(regex_pattern) = <<"(", "A", ")", "{", "2", "}">>)
          => retval = <<"A", "A">>
    /\ (Done /\ Stripped(regex_pattern) = <<"(", "A", "B", ")", "{", "2", "}">>)
          => retval = <<"A", "B", "A", "B">>
    /\ (Done /\ Stripped(regex_pattern) = <<"(", "\\", "d", ")", "{", "2", "}">>)
          => \E c \in DigitChars : retval = <<c, c>>

(***************************************************************************)
(* C9.  Literal passthrough: a pattern with none of \ [ ( . * | in it that *)
(* neither begins nor ends with ^ or $ is returned unchanged.              *)
(***************************************************************************)
DispatchChars == {"\\", "[", "(", ".", "*", "|"}

PlainLiteral(p) ==
    /\ CharsOf(p) \cap DispatchChars = {}
    /\ p # <<>> => (p[1] \notin AnchorChars /\ p[Len(p)] \notin AnchorChars)

C10_DecimalShape ==
    (Done /\ Stripped(regex_pattern) = DecimalPattern)
       => /\ Len(retval) = 6
          /\ AllIn(SubSeq(retval, 1, 3), DigitChars)
          /\ retval[4] = "."
          /\ AllIn(SubSeq(retval, 5, 6), DigitChars)

C10_DotStep ==
    (InLoop /\ AtEscapedDot(Top))
       => /\ Len(stack') = Len(stack)
          /\ stack'[Len(stack)].i = Top.i + 2
          /\ stack'[Len(stack)].result = Top.result \o <<".">>

C10_EscapedDot == []C10_DecimalShape /\ [][C10_DotStep]_vars

C10_Witness ==
    /\ Done
    /\ regex_pattern = Anchored(DecimalPattern)
    /\ retval = <<"0", "1", "0", ".", "1", "1">>

(***************************************************************************)
(* C11.  Anchors have no effect other than being removed.  The scanning    *)
(* loop reads nothing but its frame, so the possible outputs of a call are *)
(* fixed by the frame it starts from: the call for "^" + P + "$" starts    *)
(* from the very frame the call for P starts from, the pattern the         *)
(* outermost call scans is that common pattern, it neither begins nor ends *)
(* with an anchor, and an anchored literal comes back without its anchors. *)
(***************************************************************************)
C11_SameFrame ==
    /\ NewFrame(Anchored(regex_pattern)) = NewFrame(regex_pattern)
    /\ Len(stack) >= 1 =>
         stack[1].pattern = NewFrame(Anchored(regex_pattern)).pattern

C11_NoAnchorLeft ==
    /\ \A k \in 1..Len(stack) :
          LET p == stack[k].pattern
          IN  Len(p) > 0 => p[1] \notin AnchorChars /\ p[Len(p)] \notin AnchorChars
    /\ (Done /\ PlainLiteral(Stripped(regex_pattern)))
          => retval = Stripped(regex_pattern)

C11_AnchorsOnlyRemoved == C11_SameFrame /\ C11_NoAnchorLeft

\* ^A?$ has been generated: the anchors are gone, the rest is as for A?
C11_Witness ==
    /\ Done
    /\ regex_pattern = <<"^", "A", "?", "$">>
    /\ retval = <<"A", "?">>

(***************************************************************************)
(* C20.  In every state of the scanning loop the cursor i of every active  *)
(* call satisfies 0 <= i <= len(pattern), pattern being the text after     *)
(* anchor stripping; no step decreases the cursor of a call that stays     *)
(* active; and a call returns only with i = len(pattern).  No branch, a    *)
(* quantifier suffix at the very end of the pattern included, moves the    *)
(* cursor past the end.                                                    *)
(***************************************************************************)
C20_CursorInRange ==
    \A k \in 1..Len(stack) :
       /\ 0 <= stack[k].i
       /\ stack[k].i <= Len(stack[k].pattern)

C20_CursorMonotone ==
    \A k \in 1..Min(Len(stack), Len(stack')) : stack'[k].i >= stack[k].i

C20_ExitsAtEnd ==
    (pc = "running" /\ pc' # "raised" /\ Len(stack') < Len(stack))
       => Top.i = Len(Top.pattern)

C20_CursorInvariant ==
    []C20_CursorInRange /\ [][C20_CursorMonotone /\ C20_ExitsAtEnd]_vars

\* [A-Z]+ has been scanned: the + was the last character and i = len
C20_Witness ==
    /\ pc = "running"
    /\ Len(stack) = 1
    /\ Top.pattern = ClassAZ \o <<"+">>
    /\ Top.i = Len(Top.pattern)
    /\ Len(Top.result) >= PlusMin

(***************************************************************************)
(* C21.  For a class body holding more than one of the markers A-Z, a-z,   *)
(* 0-9 (such as A-Za-z0-9), the characters _generate_char_from_class can   *)
(* return are the union of the named ranges: the uppercase and lowercase   *)
(* letters when a letter marker is present, plus the digits when 0-9 is    *)
(* present, not only the range of the first marker tested.                 *)
(***************************************************************************)
RangeMarkers == {RangeUpper, RangeLower, RangeDigit}

MarkersIn(char_class) == {m \in RangeMarkers : Contains(char_class, m)}

\* the union of the ranges the body names
NamedRanges(char_class) ==
    (IF MarkersIn(char_class) \cap {RangeUpper, RangeLower} # {}
        THEN ascii_uppercase \cup ascii_lowercase ELSE {})
    \cup
    (IF RangeDigit \in MarkersIn(char_class) THEN digits ELSE {})

\* the running call is about to read a bracket class that is closed
AtClass(f) ==
    /\ f.i < Len(f.pattern)
    /\ ~AtEscapedDot(f)
    /\ At(f.pattern, f.i) = "["
    /\ Find(f.pattern, "]", f.i) # -1

\* char_class = pattern[i + 1 : end_bracket]
ClassBody(f) == Slice(f.pattern, f.i + 1, Find(f.pattern, "]", f.i))

C21_CombinedPool ==
    (pc = "running" /\ AtClass(Top)
       /\ Cardinality(MarkersIn(ClassBody(Top))) > 1)
       => GenerateCharFromClass(ClassBody(Top)) = NamedRanges(ClassBody(Top))

(***************************************************************************)
(* C23.  The + quantifier depends on what it follows.  After a bracket     *)
(* class or \d the unit is emitted 3 to 10 times, each character drawn on  *)
(* its own; after a group the one string generated for the group is        *)
(* emitted 1 to 3 times as identical copies.  In both cases the + is       *)
(* consumed and every count of the range can be drawn.                     *)
(***************************************************************************)
GroupA == <<"(", "A", ")">>

GroupD == <<"(", "\\", "d", ")">>

PlusShapes ==
    {ShorthandD \o <<"+">>, ClassAZ \o <<"+">>, GroupA \o <<"+">>,
     GroupD \o <<"+">>}

\* the counts the group's quantifier can draw once the group has returned
GroupCountsAt(f, next_pos) ==
    {q.repetition : q \in GroupQuantifierOutcomes(f.pattern, next_pos)}

C23_Samples ==
    (Done /\ Stripped(regex_pattern) \in PlusShapes) =>
       LET p == Stripped(regex_pattern)
       IN  /\ p = ShorthandD \o <<"+">>
                => /\ Len(retval) \in 3..10
                   /\ AllIn(retval, DigitChars)
           /\ p = ClassAZ \o <<"+">>
                => /\ Len(retval) \in 3..10
                   /\ AllIn(retval, UpperCaseLetters)
           /\ p = GroupA \o <<"+">>
                => \E n \in 1..3 : retval = Repeat(<<"A">>, n)
           /\ p = GroupD \o <<"+">>
                => \E n \in 1..3, c \in DigitChars : retval = Repeat(<<c>>, n)

C23_EveryCountPossible ==
    /\ (pc = "running" /\ Len(stack) = 1 /\ Top.i = 0
          /\ Top.pattern \in PlusShapes)
          => /\ Top.pattern = ShorthandD \o <<"+">> => CountsAt(Top, 2) = 3..10
             /\ Top.pattern = ClassAZ \o <<"+">> => CountsAt(Top, 5) = 3..10
    /\ (pc = "running" /\ Len(stack) = 2 /\ Top.i = Len(Top.pattern)
          /\ stack[1].pattern \in PlusShapes)
          => GroupCountsAt(stack[1], Find(stack[1].pattern, ")", 0) + 1) = 1..3

\* the step that reads a + after a unit: the + is consumed, and a group's
\* string is appended whole, 1 to 3 times
C23_PlusStep ==
    (pc = "running" /\ Len(stack') = 1 /\ stack'[1].pattern \in PlusShapes
       /\ stack'[1].i > stack[1].i)
       => /\ stack'[1].i = Len(stack'[1].pattern)
          /\ Len(stack) = 2
                => \E n \in 1..3 :
                      stack'[1].result = stack[1].result \o Repeat(Top.result, n)

C23_PlusByContext ==
    [](C23_Samples /\ C23_EveryCountPossible) /\ [][C23_PlusStep]_vars

\* (\d)+ has given the same digit three times
C23_Witness ==
    /\ Done
    /\ regex_pattern = GroupD \o <<"+">>
    /\ Len(retval) = 3

(***************************************************************************)
(* C24.  When a class or \d is followed by "{" and the text up to the next *)
(* "}" is not an integer or a comma-separated pair of integers, or there   *)
(* is no "}" at all, the brace text is no quantifier: the unit is emitted  *)
(* exactly once, nothing is raised, and the scan resumes on the "{", so    *)
(* that the brace characters are read as ordinary pattern text and emitted *)
(* as literals.  The forms n, n,m and the open n, (with the blanks, sign   *)
(* and underscores int() accepts) count as quantifiers here.               *)
(***************************************************************************)
CommasOf(b) == {k \in 1..Len(b) : b[k] = ","}

\* n, or n,m, or n, : what the claim does not call malformed
QuantifierBody(b) ==
    \/ IntParses(b)
    \/ /\ Cardinality(CommasOf(b)) = 1
       /\ LET k == CHOOSE c \in CommasOf(b) : TRUE
              left == SubSeq(b, 1, k - 1)
              right == SubSeq(b, k + 1, Len(b))
          IN  /\ IntParses(left)
              /\ StripChars(right, Whitespace) = <<>> \/ IntParses(right)

\* where the quantifier of the unit the frame is about to read would begin,
\* or -1 when the frame is not on a closed class or on \d
UnitEnd(f) ==
    IF f.i >= Len(f.pattern) \/ AtEscapedDot(f) THEN -1
    ELSE IF At(f.pattern, f.i) = "["
    THEN (IF AtClass(f) THEN Find(f.pattern, "]", f.i) + 1 ELSE -1)
    ELSE IF Slice(f.pattern, f.i, f.i + 2) = <<"\\", "d">> THEN f.i + 2
    ELSE -1

\* the unit is followed by a brace that is no quantifier
MalformedBraceAt(f) ==
    LET next_pos == UnitEnd(f)
        end_brace == Find(f.pattern, "}", next_pos)
    IN  /\ next_pos # -1
        /\ next_pos < Len(f.pattern)
        /\ At(f.pattern, next_pos) = "{"
        /\ \/ end_brace = -1
           \/ ~QuantifierBody(Slice(f.pattern, next_pos + 1, end_brace))

\* the step reading the unit: one character, no exception, cursor on "{"
C24_UnitOnce ==
    (pc = "running" /\ MalformedBraceAt(Top))
       => /\ pc' = "running"
          /\ Len(stack') = Len(stack)
          /\ stack'[Len(stack)].i = UnitEnd(Top)
          /\ Len(stack'[Len(stack)].result) = Len(Top.result) + 1

MalformedBraces ==
    { <<"{", "x", "}">>, <<"{", "}">>, <<"{">>, <<"{", "2">>,
      <<"{", ",", "2", "}">>, <<"{", "1", ",", "x", "}">>,
      <<"{", "1", ",", "2", ",", "0", "}">>,
      <<"{", "1", ",", "2", ",", "x", "}">> }

\* the brace text comes out as it was written, after the one unit
C24_BraceEmitted ==
    \A b \in MalformedBraces :
       /\ (Done /\ Stripped(regex_pattern) = ShorthandD \o b)
             => \E c \in DigitChars : retval = <<c>> \o b
       /\ (Done /\ Stripped(regex_pattern) = ClassAZ \o b)
             => \E c \in UpperCaseLetters : retval = <<c>> \o b

C24_MalformedBrace == []C24_BraceEmitted /\ [][C24_UnitOnce]_vars

(***************************************************************************)
(* C25.  Unterminated openers are dropped and the rest of the pattern is   *)
(* still processed: a "[" with no "]" after it and a "(" with no ")" after *)
(* it each emit nothing and move the cursor by exactly one, so that the    *)
(* characters after them are dispatched as usual.  "[ABC" and "(ABC" both  *)
(* give "ABC".                                                             *)
(***************************************************************************)
OpenBracketABC == <<"[", "A", "B", "C">>

OpenParenABC == <<"(", "A", "B", "C">>

\* the running call is on an opener that is never closed
AtUnterminatedOpener(f) ==
    /\ f.i < Len(f.pattern)
    /\ ~AtEscapedDot(f)
    /\ \/ At(f.pattern, f.i) = "[" /\ Find(f.pattern, "]", f.i) = -1
       \/ At(f.pattern, f.i) = "(" /\ Find(f.pattern, ")", f.i) = -1

C25_OpenerStep ==
    (pc = "running" /\ AtUnterminatedOpener(Top))
       => /\ pc' = "running"
          /\ Len(stack') = Len(stack)
          /\ stack'[Len(stack)].i = Top.i + 1
          /\ stack'[Len(stack)].result = Top.result

C25_RestProcessed ==
    /\ (Done /\ Stripped(regex_pattern) \in {OpenBracketABC, OpenParenABC})
          => retval = <<"A", "B", "C">>
    /\ (Done /\ Stripped(regex_pattern) \in {<<"[", "\\", "d">>,
                                             <<"(", "\\", "d">>})
          => Len(retval) = 1 /\ AllIn(retval, DigitChars)

C25_OpenersDropped == []C25_RestProcessed /\ [][C25_OpenerStep]_vars

\* "(ABC" has given "ABC"
C25_Witness ==
    /\ Done
    /\ regex_pattern = OpenParenABC
    /\ retval = <<"A", "B", "C">>

(***************************************************************************)
(* C26.  For a class body holding none of the markers A-Z, a-z, 0-9,       *)
(* _generate_char_from_class returns a character that occurs in the body   *)
(* text, and each of the body's characters can be returned; for the empty  *)
(* body (pattern "[]") it always returns "X".                              *)
(***************************************************************************)
\* the running call is about to read a closed class without a marker
AtLiteralClass(f) == AtClass(f) /\ MarkersIn(ClassBody(f)) = {}

C26_Pool ==
    (pc = "running" /\ AtLiteralClass(Top))
       => GenerateCharFromClass(ClassBody(Top)) =
             (IF ClassBody(Top) = <<>> THEN {"X"}
              ELSE {ClassBody(Top)[k] : k \in 1..Len(ClassBody(Top))})

\* what the step appends is drawn from the body, or is "X" for an empty one
C26_Emitted ==
    (pc = "running" /\ AtLiteralClass(Top) /\ pc' = "running")
       => LET before == Len(Top.result)
              after == stack'[Len(stack)].result
          IN  \A k \in (before + 1)..Len(after) :
                 IF ClassBody(Top) = <<>> THEN after[k] = "X"
                 ELSE \E j \in 1..Len(ClassBody(Top)) :
                         after[k] = ClassBody(Top)[j]

C26_Samples ==
    /\ (Done /\ Stripped(regex_pattern) = <<"[", "]">>) => retval = <<"X">>
    /\ (Done /\ Stripped(regex_pattern) = <<"[", "A", "B", "]">>)
          => retval \in {<<"A">>, <<"B">>}

Metas == {".", "*", "|"}

\* the text a step has appended to the running call's result
Appended ==
    SubSeq(stack'[Len(stack)].result, Len(Top.result) + 1,
           Len(stack'[Len(stack)].result))

\* a one-character step at a dispatch position: skipped iff it is a meta
C27_SkipStep ==
    (pc = "running" /\ Top.i < Len(Top.pattern) /\ AtPlainChar(Top))
       => /\ Len(stack') = Len(stack)
          /\ stack'[Len(stack)].i = Top.i + 1
          /\ IF At(Top.pattern, Top.i) \in Metas
             THEN Appended = <<>>
             ELSE Appended = <<At(Top.pattern, Top.i)>>

\* a step within one call appends a meta only as an escaped dot or as a
\* character of the class body it reads
C27_Provenance ==
    (pc = "running" /\ pc' = "running" /\ Len(stack') = Len(stack)
       /\ Top.i < Len(Top.pattern))
       => \A k \in 1..Len(Appended) :
             Appended[k] \in Metas
                => \/ AtEscapedDot(Top) /\ Appended = <<".">>
                   \/ /\ AtClass(Top)
                      /\ \E j \in 1..Len(ClassBody(Top)) :
                            ClassBody(Top)[j] = Appended[k]

\* a returning group hands over what its call produced and nothing else
C27_GroupCopies ==
    (pc = "running" /\ Len(stack') = Len(stack) - 1 /\ Len(stack') >= 1)
       => \E n \in 0..3 :
             stack'[Len(stack')].result =
                stack[Len(stack')].result \o Repeat(Top.result, n)

C27_Returned ==
    (pc = "running" /\ pc' = "done") => retval' = Top.result

\* without an escaped dot and without a class, no meta is in the sample
C27_NoStrayMeta ==
    (Done /\ ~Contains(regex_pattern, <<"\\", ".">>)
          /\ ~Contains(regex_pattern, <<"[">>))
       => \A k \in 1..Len(retval) : retval[k] \notin Metas

C27_MetasSkipped ==
    /\ []C27_NoStrayMeta
    /\ [][C27_SkipStep /\ C27_Provenance /\ C27_GroupCopies /\ C27_Returned]_vars

\* "*A" has given "A"
C27_Witness ==
    /\ Done
    /\ regex_pattern = <<"*", "A">>
    /\ retval = <<"A">>

(***************************************************************************)
(* C28.  For a class or \d followed by {n,m} with integers n > m, an empty *)
(* range, no exception leaves the call: the failed draw is handled like a  *)
(* malformed quantifier, the unit is emitted exactly once, and the         *)
(* characters "{", n, ",", m, "}" are then emitted as literal text.        *)
(***************************************************************************)
EmptyRangePairs == {nm \in (0..MaxRange) \X (0..MaxRange) : nm[1] > nm[2]}

EmptyRangeShapes ==
    UNION {{ShorthandD \o Between(nm[1], nm[2]),
            ClassAZ \o Between(nm[1], nm[2])} : nm \in EmptyRangePairs}

C28_Sample(p, n, m) ==
    /\ p = ShorthandD \o Between(n, m)
          => \E c \in DigitChars : retval = <<c>> \o Between(n, m)
    /\ p = ClassAZ \o Between(n, m)
          => \E c \in UpperCaseLetters : retval = <<c>> \o Between(n, m)

C28_Samples ==
    /\ Stripped(regex_pattern) \in EmptyRangeShapes => pc # "raised"
    /\ (Done /\ Stripped(regex_pattern) \in EmptyRangeShapes)
          => \A nm \in EmptyRangePairs :
                C28_Sample(Stripped(regex_pattern), nm[1], nm[2])

\* the step reading the unit: one character, and the cursor on the "{"
C28_UnitStep ==
    (pc = "running" /\ Len(stack) = 1 /\ Top.i = 0
       /\ Top.pattern \in EmptyRangeShapes)
       => /\ pc' = "running"
          /\ Len(stack') = 1
          /\ stack'[1].i = UnitEnd(Top)
          /\ Len(stack'[1].result) = 1

C28_EmptyRange == []C28_Samples /\ [][C28_UnitStep]_vars

\* \d{3,1} has given a digit and then the text {3,1}
C28_Witness ==
    /\ Done
    /\ regex_pattern = ShorthandD \o Between(3, 1)
    /\ retval = <<"0">> \o Between(3, 1)

(***************************************************************************)
(* C29.  The recursion is at most one call deep for every input.  A "(" is *)
(* paired with the first ")" after it, not the balancing one, so the text  *)
(* handed to the recursive call never holds a ")" and that call never      *)
(* recurses again.  For nested input such as ((A)B) the text after the     *)
(* first ")" is processed by the outer call and the ")" left over is       *)
(* emitted as a literal.                                                   *)
(***************************************************************************)
C29_DepthOne ==
    /\ Len(stack) <= 2
    /\ Len(stack) = 2
          => \A k \in 1..Len(stack[2].pattern) : stack[2].pattern[k] # ")"

\* the call starts on the text between the "(" and the first ")" after it,
\* and the caller resumes right after that ")" and its + or ?
C29_Pairing ==
    /\ (pc = "running" /\ Len(stack') = Len(stack) + 1)
          => LET first == CHOOSE k \in Top.i..(Len(Top.pattern) - 1) :
                             /\ At(Top.pattern, k) = ")"
                             /\ \A j \in Top.i..(k - 1) : At(Top.pattern, j) # ")"
             IN  stack'[Len(stack')].pattern =
                    Stripped(Slice(Top.pattern, Top.i + 1, first))
    /\ (pc = "running" /\ Len(stack) = 2 /\ Len(stack') = 1)
          => LET first == Find(stack[1].pattern, ")", stack[1].i)
             IN  stack'[1].i \in {first + 1, first + 2}

C29_Nested ==
    (Done /\ regex_pattern = <<"(", "(", "A", ")", "B", ")">>)
       => retval = <<"A", "B", ")">>

C29_RecursionBounded == [](C29_DepthOne /\ C29_Nested) /\ [][C29_Pairing]_vars

\* ((A)B): the recursive call was given "(A" and has scanned it on its own
C29_Witness ==
    /\ pc = "running"
    /\ regex_pattern = <<"(", "(", "A", ")", "B", ")">>
    /\ Len(stack) = 2
    /\ Top.pattern = <<"(", "A">>
    /\ Top.i = 2
    /\ Top.result = <<"A">>

\* len(value.split()) <= 4 in _looks_like_column_name
MaxColumnNameWords == 4

\* len(v) <= 50 in _extract_examples_from_description
MaxExampleLen == 50

(***************************************************************************)
(* The parsed suite document.  A Python value is a tag t and a payload v:  *)
(* None, a str (its characters), an int, a list (its items) or a dict (a   *)
(* record of its keys, a key the dict lacks holding Absent) or a bool.      *)
(***************************************************************************)
Absent == [t |-> "absent", v |-> <<>>]

PyNone == [t |-> "None", v |-> <<>>]

PyStr(s) == [t |-> "str", v |-> s]

PyInt(n) == [t |-> "int", v |-> n]

PyBool(b) == [t |-> "bool", v |-> b]

PyList(xs) == [t |-> "list", v |-> xs]

PyDict(r) == [t |-> "dict", v |-> r]

\* the keys a dict has
Keys(d) == {k \in DOMAIN d.v : d.v[k] # Absent}

\* key in d, for a dict d
Has(d, key) == key \in Keys(d)

\* d.get(key, default), for a dict d
Get(d, key, default) == IF Has(d, key) THEN d.v[key] ELSE default

\* bool(x), as `not x`, `if x` and `x and y` read it
Truthy(x) ==
    CASE x.t = "None" -> FALSE
      [] x.t = "str"  -> Len(x.v) > 0
      [] x.t = "int"  -> x.v # 0
      [] x.t = "bool" -> x.v
      [] x.t = "list" -> Len(x.v) > 0
      [] x.t = "dict" -> Keys(x) # {}

\* str(v) for the scalars a suite holds
Str(v) ==
    CASE v.t = "str"  -> v.v
      [] v.t = "int"  -> IF v.v < 0 THEN <<"-">> \o Dec(0 - v.v) ELSE Dec(v.v)
      [] v.t = "None" -> <<"N", "o", "n", "e">>

\* iter(x) does not raise TypeError
Iterable(x) == x.t \in {"list", "str"}

\* what `for item in x` visits: the items of a list, the characters of a str
Items(x) ==
    CASE x.t = "list" -> x.v
      [] x.t = "str"  -> [k \in 1..Len(x.v) |-> PyStr(<<x.v[k]>>)]

\* hash(x) does not raise TypeError, so x can be a key of a dict
Hashable(x) == x.t \in {"None", "str", "int"}

\* s.upper()
Upper(s) ==
    [k \in 1..Len(s) |->
       IF \E j \in 1..26 : LowerLetters[j] = s[k]
       THEN UpperLetters[CHOOSE j \in 1..26 : LowerLetters[j] = s[k]]
       ELSE s[k]]

\* s.find(sub) for a non-empty sub: the lowest index, or -1
FindSub(s, sub) ==
    LET hits == {k \in 0..(Len(s) - Len(sub)) : Slice(s, k, k + Len(sub)) = sub}
    IN  IF hits = {} THEN -1 ELSE CHOOSE k \in hits : \A h \in hits : k <= h

\* s.split(sep): the pieces between the occurrences of sep, empty ones kept
RECURSIVE Split(_, _)
Split(s, sep) ==
    LET k == FindSub(s, sep)
    IN  IF k = -1 THEN <<s>>
        ELSE <<Slice(s, 0, k)>> \o Split(Slice(s, k + Len(sep), Len(s)), sep)

\* len(s.split()): the number of runs of characters that are not whitespace
WordCount(s) ==
    Cardinality({k \in 1..Len(s) :
                   /\ s[k] \notin Whitespace
                   /\ (k = 1 \/ s[k - 1] \in Whitespace)})

(***************************************************************************)
(* _looks_like_column_name                                                 *)
(***************************************************************************)
suspicious_patterns ==
    << <<"C", "L", "I", "E", "N", "T", " ", "M", "B", "R", "I", "D">>,
       <<"M", "E", "M", "B", "E", "R", "_", "I", "D">>,
       <<"F", "I", "R", "S", "T", " ", "N", "A", "M", "E">>,
       <<"L", "A", "S", "T", " ", "N", "A", "M", "E">>,
       <<"M", "e", "m", "b", "e", "r", "L", "a", "s", "t", "N", "a", "m", "e">>,
       <<"M", "e", "m", "b", "e", "r", "F", "i", "r", "s", "t", "N", "a", "m", "e">>,
       <<"C", "H", "A", "S", "E", " ", "L", "O", "A", "D", " ", "D", "A", "T", "E">>,
       <<"L", "O", "A", "D", " ", "D", "A", "T", "E">>,
       <<"D", "A", "T", "E">> >>

\* a variant: the comparison with value.upper() is left out
looks_like_column_name_any_case(value) ==
    IF Len(value) = 0 \/ Len(StripChars(value, Whitespace)) = 0
    THEN TRUE
    ELSE IF \E k \in 1..Len(suspicious_patterns) :
                Upper(value) = Upper(suspicious_patterns[k])
    THEN TRUE
    ELSE /\ "_" \in CharsOf(value)
         /\ WordCount(value) <= MaxColumnNameWords

looks_like_column_name(value) ==
    IF Len(value) = 0 \/ Len(StripChars(value, Whitespace)) = 0
    THEN TRUE
    ELSE IF \E k \in 1..Len(suspicious_patterns) :
                Upper(value) = Upper(suspicious_patterns[k])
    THEN TRUE
    ELSE /\ "_" \in CharsOf(value)
         /\ Upper(value) = value
         /\ WordCount(value) <= MaxColumnNameWords

(***************************************************************************)
(* _extract_examples_from_description                                      *)
(***************************************************************************)
ExMarker == <<"E", "x", ":">>

ExampleMarker == <<"E", "x", "a", "m", "p", "l", "e", ":">>

\* [v for v in values if v and len(v) <= 50], values being the stripped
\* pieces of example_text.split(",")
RECURSIVE KeepExamples(_)
KeepExamples(pieces) ==
    IF pieces = <<>> THEN <<>>
    ELSE LET v == StripChars(Head(pieces), Whitespace)
         IN  (IF Len(v) > 0 /\ Len(v) <= MaxExampleLen THEN <<v>> ELSE <<>>)
                \o KeepExamples(Tail(pieces))

\* a variant: the text is not cut at the full stop
extract_examples_whole_rest(description) ==
    IF Contains(description, ExMarker) \/ Contains(description, ExampleMarker)
    THEN LET by_ex == Split(description, ExMarker)
             parts == IF Len(by_ex) < 2
                      THEN Split(description, ExampleMarker) ELSE by_ex
         IN  IF Len(parts) >= 2
             THEN KeepExamples(Split(StripChars(parts[2], Whitespace), <<",">>))
             ELSE <<>>
    ELSE <<>>

extract_examples_from_description(description) ==
    IF Contains(description, ExMarker) \/ Contains(description, ExampleMarker)
    THEN LET by_ex == Split(description, ExMarker)
             parts == IF Len(by_ex) < 2
                      THEN Split(description, ExampleMarker) ELSE by_ex
         IN  IF Len(parts) >= 2
             THEN LET example_text ==
                          StripChars(Split(parts[2], <<".">>)[1], Whitespace)
                  IN  KeepExamples(Split(example_text, <<",">>))
             ELSE <<>>
    ELSE <<>>

(***************************************************************************)
(* The extraction functions of GXConstraintExtractor.  A call is a frame   *)
(* on the stack: the function, its arguments, where it stands (at), the    *)
(* items its loop visits, how many it has visited and the mapping it has   *)
(* built so far.  get_*_for_column call an extract_* function and finish   *)
(* when it returns; the frame of a call that returned stays, at "returned",*)
(* as the record of its arguments.  regex_pattern is not used here.        *)
(***************************************************************************)
in_set_type ==
    <<"e", "x", "p", "e", "c", "t", "_", "c", "o", "l", "u", "m", "n", "_",
    "v", "a", "l", "u", "e", "s", "_", "t", "o", "_", "b", "e", "_", "i",
    "n", "_", "s", "e", "t">>

match_regex_type ==
    <<"e", "x", "p", "e", "c", "t", "_", "c", "o", "l", "u", "m", "n", "_",
    "v", "a", "l", "u", "e", "s", "_", "t", "o", "_", "m", "a", "t", "c",
    "h", "_", "r", "e", "g", "e", "x">>

match_strftime_type ==
    <<"e", "x", "p", "e", "c", "t", "_", "c", "o", "l", "u", "m", "n", "_",
    "v", "a", "l", "u", "e", "s", "_", "t", "o", "_", "m", "a", "t", "c",
    "h", "_", "s", "t", "r", "f", "t", "i", "m", "e", "_", "f", "o", "r",
    "m", "a", "t">>

\* the literal {} given as a default
EmptyDict == PyDict(<<>>)

\* what one pass of a loop body leaves: the mapping, or the exception raised
Ok(mapping) == [exc |-> "None", acc |-> mapping]

Error(exc) == [exc |-> exc, acc |-> <<>>]

\* [str(v) for v in xs]
StrEach(xs) == [k \in 1..Len(xs) |-> PyStr(Str(xs[k]))]

\* the body of the loop of extract_value_sets
ValueSetsBody(expectation, value_sets) ==
    IF expectation.t # "dict" THEN Error("AttributeError")
    ELSE IF Get(expectation, "type", PyNone) # PyStr(in_set_type)
    THEN Ok(value_sets)
    ELSE LET kwargs == Get(expectation, "kwargs", EmptyDict)
         IN  IF kwargs.t # "dict" THEN Error("AttributeError")
             ELSE LET column == Get(kwargs, "column", PyNone)
                      value_set == Get(kwargs, "value_set", PyList(<<>>))
                  IN  IF Truthy(column) /\ Truthy(value_set)
                      THEN IF ~Iterable(value_set) \/ ~Hashable(column)
                           THEN Error("TypeError")
                           ELSE Ok((column :> PyList(StrEach(Items(value_set))))
                                      @@ value_sets)
                      ELSE Ok(value_sets)

\* a variant: the first rule for a column is kept
RawParameterFirstWins(expectation, mapping, type_name, key) ==
    IF expectation.t # "dict" THEN Error("AttributeError")
    ELSE IF Get(expectation, "type", PyNone) # PyStr(type_name)
    THEN Ok(mapping)
    ELSE LET kwargs == Get(expectation, "kwargs", EmptyDict)
         IN  IF kwargs.t # "dict" THEN Error("AttributeError")
             ELSE LET column == Get(kwargs, "column", PyNone)
                      parameter == Get(kwargs, key, PyNone)
                  IN  IF Truthy(column) /\ Truthy(parameter)
                      THEN IF ~Hashable(column) THEN Error("TypeError")
                           ELSE Ok(mapping @@ (column :> parameter))
                      ELSE Ok(mapping)

\* the body of the loops of extract_regex_patterns (key "regex") and
\* extract_strftime_formats (key "strftime_format")
RawParameterBody(expectation, mapping, type_name, key) ==
    IF expectation.t # "dict" THEN Error("AttributeError")
    ELSE IF Get(expectation, "type", PyNone) # PyStr(type_name)
    THEN Ok(mapping)
    ELSE LET kwargs == Get(expectation, "kwargs", EmptyDict)
         IN  IF kwargs.t # "dict" THEN Error("AttributeError")
             ELSE LET column == Get(kwargs, "column", PyNone)
                      parameter == Get(kwargs, key, PyNone)
                  IN  IF Truthy(column) /\ Truthy(parameter)
                      THEN IF ~Hashable(column) THEN Error("TypeError")
                           ELSE Ok((column :> parameter) @@ mapping)
                      ELSE Ok(mapping)

HintKinds == {"lob", "states", "description_examples"}

\* hints = {} with its keys set as the body of the loop sets them
NoHints == PyDict([kind \in HintKinds |-> Absent])

\* if key in meta and isinstance(meta[key], list): [str(v) for v in meta[key]]
ListHint(meta, key) ==
    IF Has(meta, key) /\ meta.v[key].t = "list"
    THEN PyList(StrEach(meta.v[key].v))
    ELSE Absent

\* hints["description_examples"] =
\*     self._extract_examples_from_description(description)
ExamplesHint(description) ==
    LET examples == extract_examples_from_description(description)
    IN  PyList([k \in 1..Len(examples) |-> PyStr(examples[k])])

\* `"lob" in meta`, `"states" in meta` and meta.get(...) for a meta that is
\* not a dict: the exception raised
MetaError(meta) ==
    CASE meta.t \in {"None", "int"} -> "TypeError"
      [] meta.t = "str" ->
           IF Contains(meta.v, <<"l", "o", "b">>)
              \/ Contains(meta.v, <<"s", "t", "a", "t", "e", "s">>)
           THEN "TypeError" ELSE "AttributeError"

\* a variant: a list supplied again is appended to the stored one
HintsExtend(old, hints) ==
    PyDict([kind \in HintKinds |->
              IF hints.v[kind] # Absent
              THEN IF old.v[kind] # Absent
                   THEN PyList(old.v[kind].v \o hints.v[kind].v)
                   ELSE hints.v[kind]
              ELSE old.v[kind]])

\* a variant: metadata_hints[column] = hints
HintsOverwrite(old, hints) == hints

\* metadata_hints[column].update(hints)
HintsUpdate(old, hints) ==
    PyDict([kind \in HintKinds |->
              IF hints.v[kind] # Absent THEN hints.v[kind] ELSE old.v[kind]])

\* the body of the loop of extract_metadata_hints
MetadataHintsBody(expectation, metadata_hints) ==
    IF expectation.t # "dict" THEN Error("AttributeError")
    ELSE LET kwargs == Get(expectation, "kwargs", EmptyDict)
             meta == Get(expectation, "meta", EmptyDict)
         IN  IF kwargs.t # "dict" THEN Error("AttributeError")
             ELSE LET column == Get(kwargs, "column", PyNone)
                  IN  IF ~Truthy(column) THEN Ok(metadata_hints)
                      ELSE IF meta.t # "dict" THEN Error(MetaError(meta))
                      ELSE LET description ==
                                   Get(meta, "description", PyStr(<<>>))
                               hints ==
                                   PyDict([kind \in HintKinds |->
                                      IF kind = "description_examples"
                                      THEN IF Truthy(description)
                                           THEN ExamplesHint(description.v)
                                           ELSE Absent
                                      ELSE ListHint(meta, kind)])
                               old == IF column \in DOMAIN metadata_hints
                                      THEN metadata_hints[column] ELSE NoHints
                           IN  IF description.t = "int" /\ Truthy(description)
                               THEN Error("TypeError")
                               ELSE IF Keys(hints) = {} THEN Ok(metadata_hints)
                               ELSE IF ~Hashable(column) THEN Error("TypeError")
                               ELSE Ok((column :> HintsUpdate(old, hints))
                                          @@ metadata_hints)

ExtractFns ==
    {"extract_value_sets", "extract_regex_patterns",
     "extract_strftime_formats", "extract_metadata_hints"}

GetFns ==
    {"get_constraints_for_column", "get_regex_for_column",
     "get_strftime_format_for_column"}

\* the extract_* function a get_*_for_column function calls
Callee(fn) ==
    CASE fn = "get_constraints_for_column" -> "extract_value_sets"
      [] fn = "get_regex_for_column" -> "extract_regex_patterns"
      [] fn = "get_strftime_format_for_column" -> "extract_strftime_formats"

\* a call begins: its arguments, and the mapping it starts from ({})
NewCall(fn, expectations, column_name, description) ==
    [fn |-> fn, expectations |-> expectations, column_name |-> column_name,
     description |-> description, at |-> "entry", items |-> <<>>,
     idx |-> 0, acc |-> <<>>]

\* the running call is fn at the given place
Running(fns, at) == pc = "running" /\ Top.fn \in fns /\ Top.at = at

\* a variant: the filtered list is returned also when it is empty
FilteredValuesMaybeEmpty(value_sets, column_name) ==
    IF column_name \in DOMAIN value_sets
    THEN LET Kept(v) == ~looks_like_column_name(v.v)
         IN  PyList(SelectSeq(value_sets[column_name].v, Kept))
    ELSE PyNone

\* if column_name in value_sets: the values that do not look like column
\* names, if there are any; otherwise None
FilteredValues(value_sets, column_name) ==
    IF column_name \in DOMAIN value_sets
    THEN LET Kept(v) == ~looks_like_column_name(v.v)
             filtered_values == SelectSeq(value_sets[column_name].v, Kept)
         IN  IF filtered_values # <<>> THEN PyList(filtered_values) ELSE PyNone
    ELSE PyNone

\* mapping.get(column_name)
Lookup(mapping, column_name) ==
    IF column_name \in DOMAIN mapping THEN mapping[column_name] ELSE PyNone

\* a variant: without a value set, get_constraints_for_column falls back on
\* the hints of the first expectation it finds for the column
ContinuationWithHints(caller, mapping) ==
    IF caller.fn = "get_constraints_for_column"
    THEN IF caller.column_name \in DOMAIN mapping
         THEN FilteredValues(mapping, caller.column_name)
         ELSE LET scanned == Get(caller.expectations, "expectations",
                                 PyList(<<>>))
                  rules == IF scanned.t = "list" THEN scanned.v ELSE <<>>
                  hinted == {k \in 1..Len(rules) :
                               /\ Get(Get(rules[k], "kwargs", EmptyDict),
                                      "column", PyNone) = caller.column_name
                               /\ Get(rules[k], "meta", EmptyDict).t = "dict"
                               /\ ListHint(Get(rules[k], "meta", EmptyDict),
                                           "lob") # Absent}
              IN  IF hinted = {} THEN PyNone
                  ELSE ListHint(Get(rules[CHOOSE k \in hinted : TRUE], "meta",
                                    EmptyDict), "lob")
    ELSE Lookup(mapping, caller.column_name)

\* what the caller returns once the extract_* function it called returned
Continuation(caller, mapping) ==
    IF caller.fn = "get_constraints_for_column"
    THEN FilteredValues(mapping, caller.column_name)
    ELSE Lookup(mapping, caller.column_name)

\* the running extract_* function returns mapping; a get_*_for_column that
\* called it returns in turn
ReturnMapping(mapping) ==
    /\ retval' = IF Len(stack) = 1 THEN PyDict(mapping)
                 ELSE Continuation(stack[1], mapping)
    /\ pc' = "done"
    /\ stack' = <<[stack[1] EXCEPT !.at = "returned"]>>
    /\ UNCHANGED <<regex_pattern, exception>>

\* get_*_for_column: the call of its extract_* function starts
GetCall ==
    /\ Running(GetFns, "entry")
    /\ stack' = <<[Top EXCEPT !.at = "call"],
                  NewCall(Callee(Top.fn), Top.expectations, PyNone, PyNone)>>
    /\ UNCHANGED <<regex_pattern, pc, retval, exception>>

\* a variant: the test for the "expectations" key is left out
NothingToScanNoKeyTest(expectations) == ~Truthy(expectations)

\* if not expectations or "expectations" not in expectations
NothingToScan(expectations) ==
    \/ ~Truthy(expectations)
    \/ ~Has(expectations, "expectations")

\* ... : return the empty mapping
EmptyOrMissing ==
    /\ Running(ExtractFns, "entry")
    /\ NothingToScan(Top.expectations)
    /\ ReturnMapping(Top.acc)

\* for expectation in expectations["expectations"]: the loop begins
BeginScan ==
    /\ Running(ExtractFns, "entry")
    /\ ~NothingToScan(Top.expectations)
    /\ LET scanned == Get(Top.expectations, "expectations", Absent)
       IN  IF scanned = Absent THEN Raise("KeyError")
           ELSE IF Iterable(scanned)
           THEN /\ stack' = [stack EXCEPT ![Len(stack)] =
                               [@ EXCEPT !.at = "loop",
                                         !.items = Items(scanned)]]
                /\ UNCHANGED <<regex_pattern, pc, retval, exception>>
           ELSE Raise("TypeError")

\* the loop has an item left
InScan(fn) == Running({fn}, "loop") /\ Top.idx < Len(Top.items)

\* one pass of the loop body ends with outcome o
EndPass(o) ==
    IF o.exc # "None" THEN Raise(o.exc)
    ELSE /\ stack' = [stack EXCEPT ![Len(stack)] =
                        [@ EXCEPT !.idx = @ + 1, !.acc = o.acc]]
         /\ UNCHANGED <<regex_pattern, pc, retval, exception>>

ValueSetsStep ==
    /\ InScan("extract_value_sets")
    /\ EndPass(ValueSetsBody(Top.items[Top.idx + 1], Top.acc))

RegexPatternsStep ==
    /\ InScan("extract_regex_patterns")
    /\ EndPass(RawParameterBody(Top.items[Top.idx + 1], Top.acc,
                                match_regex_type, "regex"))

StrftimeFormatsStep ==
    /\ InScan("extract_strftime_formats")
    /\ EndPass(RawParameterBody(Top.items[Top.idx + 1], Top.acc,
                                match_strftime_type, "strftime_format"))

MetadataHintsStep ==
    /\ InScan("extract_metadata_hints")
    /\ EndPass(MetadataHintsBody(Top.items[Top.idx + 1], Top.acc))

\* the loop is over: return the mapping built
ScanReturn ==
    /\ Running(ExtractFns, "loop")
    /\ Top.idx = Len(Top.items)
    /\ ReturnMapping(Top.acc)

\* _extract_examples_from_description(description)
ExtractExamples ==
    /\ Running({"_extract_examples_from_description"}, "entry")
    /\ retval' = ExamplesHint(Top.description.v)
    /\ pc' = "done"
    /\ stack' = <<[Top EXCEPT !.at = "returned"]>>
    /\ UNCHANGED <<regex_pattern, exception>>

\* a call of _looks_like_column_name begins
HeuristicCall(value) ==
    [fn |-> "_looks_like_column_name", value |-> value, at |-> "entry"]

\* _looks_like_column_name(value)
LooksLikeColumnName ==
    /\ Running({"_looks_like_column_name"}, "entry")
    /\ retval' = PyBool(looks_like_column_name(Top.value.v))
    /\ pc' = "done"
    /\ stack' = <<[Top EXCEPT !.at = "returned"]>>
    /\ UNCHANGED <<regex_pattern, exception>>

(***************************************************************************)
(* The suites and descriptions the calls are given.                        *)
(***************************************************************************)
\* a list of str
StrList(xs) == PyList([k \in 1..Len(xs) |-> PyStr(xs[k])])

Expectation(type, kwargs, meta) ==
    PyDict([type |-> type, kwargs |-> kwargs, meta |-> meta])

Kwargs(column, value_set, regex, strftime_format) ==
    PyDict([column |-> column, value_set |-> value_set, regex |-> regex,
            strftime_format |-> strftime_format])

Meta(lob, states, description) ==
    PyDict([lob |-> lob, states |-> states, description |-> description])

InSet(column, value_set, meta) ==
    Expectation(PyStr(in_set_type),
                Kwargs(column, value_set, Absent, Absent), meta)

MatchRegex(column, regex, meta) ==
    Expectation(PyStr(match_regex_type),
                Kwargs(column, Absent, regex, Absent), meta)

MatchStrftime(column, strftime_format, meta) ==
    Expectation(PyStr(match_strftime_type),
                Kwargs(column, Absent, Absent, strftime_format), meta)

Status == PyStr(<<"S", "t", "a", "t", "u", "s">>)

Plan == PyStr(<<"P", "l", "a", "n">>)

Columns == {Status, Plan}

MemberId == <<"M", "E", "M", "B", "E", "R", "_", "I", "D">>

LobMD == Meta(StrList(<<<<"M", "D">>>>), Absent, Absent)

LobME == Meta(StrList(<<<<"M", "E">>>>), Absent, Absent)

StatesNYNJ == Meta(Absent, StrList(<<<<"N", "Y">>, <<"N", "J">>>>), Absent)

\* "Valid LOBs. Ex: MD, ME, MP. See notes."
LobDescription ==
    <<"V", "a", "l", "i", "d", " ", "L", "O", "B", "s", ".", " ", "E", "x",
    ":", " ", "M", "D", ",", " ", "M", "E", ",", " ", "M", "P", ".", " ",
    "S", "e", "e", " ", "n", "o", "t", "e", "s", ".">>

\* well-formed rules: value sets, regexes and formats for two columns, with
\* and without hints, with empty parameters and without a column
Rules ==
    { InSet(Status, StrList(<<<<"A">>, <<"B">>, <<"C">>>>), LobMD),
      InSet(Status, StrList(<<MemberId, <<"X", "1">>>>), StatesNYNJ),
      InSet(Plan, StrList(<<MemberId, <<" ">>, <<"d", "a", "t", "e">>>>),
            Meta(Absent, Absent, PyStr(LobDescription))),
      InSet(Status, PyList(<<>>), Absent),
      InSet(Status, PyList(<<PyInt(1), PyNone, PyStr(<<"M", "D">>)>>), Absent),
      InSet(Absent, StrList(<<<<"A">>>>), LobMD),
      MatchRegex(Status, PyStr(<<"[", "A", "-", "Z", "]">>), LobME),
      MatchRegex(Status, PyStr(<<"\\", "d">>), Absent),
      MatchRegex(Plan, PyStr(<<>>), StatesNYNJ),
      MatchStrftime(Status, PyStr(<<"%", "Y">>),
                    Meta(PyStr(<<"M", "D">>), Absent, Absent)),
      MatchStrftime(Status, PyStr(<<"%", "d">>),
                    Meta(Absent, Absent, PyStr(<<"n", "o", "n", "e">>))),
      MatchRegex(Plan, PyStr(<<"\\", "d">>),
                 Meta(Absent, Absent, PyStr(<<"n", "o", "n", "e">>))),
      Expectation(Absent, Absent, Absent) }

\* malformed items: not mappings, or with kwargs or meta that are no mappings
Malformed ==
    { PyNone, PyStr(<<"x">>), PyInt(1),
      Expectation(PyStr(in_set_type), PyNone, Absent),
      Expectation(PyStr(match_regex_type),
                  Kwargs(Status, Absent, PyStr(<<"\\", "d">>), Absent), PyNone),
      Expectation(PyStr(match_strftime_type),
                  Kwargs(Plan, Absent, Absent, PyStr(<<"%", "Y">>)),
                  PyStr(<<"x">>)) }

RuleLists ==
    UNION {[1..n -> Rules \cup Malformed] : n \in 0..MaxRules}

Suite(name, expectations) ==
    PyDict([name |-> name, expectations |-> expectations])

Suites ==
    {PyNone, Suite(Absent, Absent), Suite(PyStr(<<"s">>), Absent),
     Suite(Absent, PyNone), Suite(Absent, PyStr(<<>>)),
     Suite(Absent, PyStr(<<"a", "b">>)), Suite(Absent, PyInt(5))}
       \cup {Suite(Absent, PyList(rules)) : rules \in RuleLists}

\* a token of 50 characters and one of 51
LongExample(n) == [k \in 1..n |-> "A"]

DescriptionPieces ==
    { ExMarker, ExampleMarker, <<".">>, <<",">>, <<" ">>, <<"M", "D">>,
      <<"M", "E">>, LongExample(MaxExampleLen), LongExample(MaxExampleLen + 1) }

Descriptions ==
    {LobDescription}
       \cup {Flatten(ps) : ps \in UNION {[1..n -> DescriptionPieces] :
                                           n \in 0..MaxPieces}}

\* s.lower()
Lower(s) ==
    [k \in 1..Len(s) |->
       IF \E j \in 1..26 : UpperLetters[j] = s[k]
       THEN LowerLetters[CHOOSE j \in 1..26 : UpperLetters[j] = s[k]]
       ELSE s[k]]

\* "A_", "A_ B", "A_ B B", ...: n words, the first with an underscore
RECURSIVE Words(_)
Words(n) ==
    IF n <= 1 THEN <<"A", "_">> ELSE Words(n - 1) \o <<" ", "B">>

ValuePieces ==
    { <<"A">>, <<"a">>, <<"_">>, <<" ">>, <<"1">>, <<"X">>,
      <<"D", "A", "T", "E">>, <<"d", "a", "t", "e">> }

\* the values _looks_like_column_name is asked about
Values ==
    {Flatten(ps) : ps \in UNION {[1..n -> ValuePieces] : n \in 0..MaxPieces}}
       \cup UNION {{suspicious_patterns[k], Upper(suspicious_patterns[k]),
                    Lower(suspicious_patterns[k]),
                    suspicious_patterns[k] \o <<" ">>,
                    suspicious_patterns[k] \o <<"_">>} :
                     k \in 1..Len(suspicious_patterns)}
       \cup {Words(n) : n \in 1..(MaxColumnNameWords + 2)}
       \cup {Lower(Words(n)) : n \in 1..(MaxColumnNameWords + 2)}
       \cup {<<"X", "1">>, <<"a", "_", "b">>, <<"1", "_", "2">>}

InitExtractor ==
    /\ regex_pattern = <<>>
    /\ \/ \E fn \in ExtractFns, suite \in Suites :
              stack = <<NewCall(fn, suite, PyNone, PyNone)>>
       \/ \E fn \in GetFns, suite \in Suites, column_name \in Columns :
              stack = <<NewCall(fn, suite, column_name, PyNone)>>
       \/ \E d \in Descriptions :
              stack = <<NewCall("_extract_examples_from_description", PyNone,
                                PyNone, PyStr(d))>>
       \/ \E value \in Values : stack = <<HeuristicCall(PyStr(value))>>
    /\ pc = "running"
    /\ retval = PyNone
    /\ exception = "None"

NextExtractor ==
    \/ GetCall
    \/ EmptyOrMissing
    \/ BeginScan
    \/ ValueSetsStep
    \/ RegexPatternsStep
    \/ StrftimeFormatsStep
    \/ MetadataHintsStep
    \/ ScanReturn
    \/ ExtractExamples
    \/ LooksLikeColumnName

SpecExtractor == InitExtractor /\ [][NextExtractor]_vars

(***************************************************************************)
(* Vocabulary of the properties of the extraction functions.               *)
(***************************************************************************)
\* the call that was made
Call == stack[1]

\* the call was of one of fns and has returned
Returned(fns) == pc = "done" /\ Call.fn \in fns

\* the expectations a returned scan has visited
RulesOf(suite) ==
    IF suite.t = "dict" /\ Has(suite, "expectations")
          /\ Iterable(suite.v["expectations"])
    THEN Items(suite.v["expectations"])
    ELSE <<>>

LastWinsFns ==
    {"extract_value_sets", "extract_regex_patterns",
     "extract_strftime_formats"}

TypeOf(fn) ==
    CASE fn = "extract_value_sets" -> in_set_type
      [] fn = "extract_regex_patterns" -> match_regex_type
      [] fn = "extract_strftime_formats" -> match_strftime_type

KeyOf(fn) ==
    CASE fn = "extract_value_sets" -> "value_set"
      [] fn = "extract_regex_patterns" -> "regex"
      [] fn = "extract_strftime_formats" -> "strftime_format"

\* rule is an expectation of fn's type whose kwargs name column c
Targets(rule, fn, c) ==
    /\ rule.t = "dict"
    /\ Get(rule, "type", PyNone) = PyStr(TypeOf(fn))
    /\ Get(rule, "kwargs", EmptyDict).t = "dict"
    /\ Get(Get(rule, "kwargs", EmptyDict), "column", PyNone) = c

\* the parameter of fn that rule carries, as written in the suite
RawParameter(rule, fn) ==
    Get(Get(rule, "kwargs", EmptyDict), KeyOf(fn),
        IF fn = "extract_value_sets" THEN PyList(<<>>) ELSE PyNone)

\* ... and as the mapping holds it: a value_set is stringified
Parameter(rule, fn) ==
    IF fn = "extract_value_sets"
    THEN PyList(StrEach(Items(RawParameter(rule, fn))))
    ELSE RawParameter(rule, fn)

Largest(S) == CHOOSE k \in S : \A h \in S : h <= k

(***************************************************************************)
(* C12.  Last-wins, as claimed: when extract_value_sets,                   *)
(* extract_regex_patterns or extract_strftime_formats returns, the entry   *)
(* of every column targeted by expectations of the matching type is the    *)
(* parameter of the last of them in suite order.                           *)
(***************************************************************************)
C12_LastWins ==
    Returned(LastWinsFns) =>
       \A c \in Columns :
          LET rules == RulesOf(Call.expectations)
              hits == {k \in 1..Len(rules) : Targets(rules[k], Call.fn, c)}
          IN  hits # {} =>
                 /\ c \in DOMAIN retval.v
                 /\ retval.v[c] = Parameter(rules[Largest(hits)], Call.fn)

\* C12 as amended: the entry of a column is the parameter of the last
\* expectation of the matching type that names the column AND carries a
\* non-empty parameter; expectations whose parameter is missing or empty
\* are passed over, and a column named only by such expectations has no
\* entry.
C12_LastNonEmptyWins ==
    Returned(LastWinsFns) =>
       \A c \in Columns :
          LET rules == RulesOf(Call.expectations)
              hits == {k \in 1..Len(rules) :
                         /\ Targets(rules[k], Call.fn, c)
                         /\ Truthy(RawParameter(rules[k], Call.fn))}
          IN  IF hits = {} THEN c \notin DOMAIN retval.v
              ELSE /\ c \in DOMAIN retval.v
                   /\ retval.v[c] = Parameter(rules[Largest(hits)], Call.fn)

\* two regex rules for Status: the second one's regex is the entry
C12_Witness ==
    /\ Returned({"extract_regex_patterns"})
    /\ RulesOf(Call.expectations) =
          << MatchRegex(Status, PyStr(<<"[", "A", "-", "Z", "]">>), LobME),
             MatchRegex(Status, PyStr(<<"\\", "d">>), Absent) >>
    /\ retval = PyDict(Status :> PyStr(<<"\\", "d">>))

(***************************************************************************)
(* C13.  get_constraints_for_column(suite, c) returns the elements of      *)
(* extract_value_sets(suite)[c] that the placeholder heuristic rejects     *)
(* not, in their order: ["A","B","C"] comes back unchanged and             *)
(* ["MEMBER_ID","X1"] gives ["X1"].  It returns None, never an empty list, *)
(* when c has no value set or every element is filtered out.               *)
(***************************************************************************)
\* the step in which extract_value_sets hands its mapping to
\* get_constraints_for_column, which returns
ConstraintsReturn ==
    /\ pc = "running"
    /\ pc' = "done"
    /\ Len(stack) = 2
    /\ Call.fn = "get_constraints_for_column"

\* the positions of values that do not look like column names
KeptAt(values) ==
    {k \in 1..Len(values) : ~looks_like_column_name(values[k].v)}

\* out is values with the positions outside KeptAt(values) removed
IsFiltered(out, values) ==
    /\ Len(out) = Cardinality(KeptAt(values))
    /\ \A k \in KeptAt(values) :
          out[Cardinality({h \in KeptAt(values) : h <= k})] = values[k]

C13_FilterStep ==
    ConstraintsReturn =>
       LET value_sets == Top.acc
           c == Call.column_name
       IN  IF c \in DOMAIN value_sets /\ KeptAt(value_sets[c].v) # {}
           THEN /\ retval'.t = "list"
                /\ IsFiltered(retval'.v, value_sets[c].v)
           ELSE retval' = PyNone

C13_Examples ==
    /\ Returned({"get_constraints_for_column"}) => retval # PyList(<<>>)
    /\ (/\ Returned({"get_constraints_for_column"})
        /\ Call.column_name = Status
        /\ RulesOf(Call.expectations) =
              <<InSet(Status, StrList(<<<<"A">>, <<"B">>, <<"C">>>>), LobMD)>>)
          => retval = StrList(<<<<"A">>, <<"B">>, <<"C">>>>)
    /\ (/\ Returned({"get_constraints_for_column"})
        /\ Call.column_name = Status
        /\ RulesOf(Call.expectations) =
              <<InSet(Status, StrList(<<MemberId, <<"X", "1">>>>), StatesNYNJ)>>)
          => retval = StrList(<<<<"X", "1">>>>)

C13_FilteredConstraints == []C13_Examples /\ [][C13_FilterStep]_vars

\* every value of Plan's set looks like a column name: None is returned
C13_Witness ==
    /\ Returned({"get_constraints_for_column"})
    /\ Call.column_name = Plan
    /\ RulesOf(Call.expectations) =
          <<InSet(Plan, StrList(<<MemberId, <<" ">>, <<"d", "a", "t", "e">>>>),
                  Meta(Absent, Absent, PyStr(LobDescription)))>>
    /\ retval = PyNone

(***************************************************************************)
(* C14.  get_constraints_for_column never returns metadata hints: every    *)
(* string it returns is str(v) for a member v of the value_set of an       *)
(* in-set expectation naming that column, and a value found only in        *)
(* meta.lob, meta.states or the description of expectations for the column *)
(* is never returned.                                                      *)
(***************************************************************************)
\* the stringified members of the value sets given for column c
ValueSetStrings(rules, c) ==
    UNION {{PyStr(Str(v)) :
              v \in {RawParameter(rules[k], "extract_value_sets").v[j] :
                       j \in 1..Len(RawParameter(rules[k],
                                                 "extract_value_sets").v)}} :
             k \in {h \in 1..Len(rules) :
                      Targets(rules[h], "extract_value_sets", c)}}

\* the strings the hints of column c hold
HintStrings(rules, c) ==
    UNION {LET meta == Get(rules[k], "meta", EmptyDict)
               description == Get(meta, "description", PyStr(<<>>))
               lists == {ListHint(meta, "lob"), ListHint(meta, "states"),
                         ExamplesHint(description.v)} \ {Absent}
           IN  UNION {{l.v[j] : j \in 1..Len(l.v)} : l \in lists} :
             k \in {h \in 1..Len(rules) :
                      /\ rules[h].t = "dict"
                      /\ Get(rules[h], "kwargs", EmptyDict).t = "dict"
                      /\ Get(rules[h], "meta", EmptyDict).t = "dict"
                      /\ Get(Get(rules[h], "kwargs", EmptyDict),
                             "column", PyNone) = c}}

C14_NoHintsReturned ==
    (Returned({"get_constraints_for_column"}) /\ retval.t = "list") =>
       LET rules == RulesOf(Call.expectations)
           returned == {retval.v[k] : k \in 1..Len(retval.v)}
           from_sets == ValueSetStrings(rules, Call.column_name)
       IN  /\ returned \subseteq from_sets
           /\ returned \cap (HintStrings(rules, Call.column_name) \ from_sets)
                 = {}

\* Status has the value set A, B, C and the lob hint MD: MD is not returned
C14_Witness ==
    /\ Returned({"get_constraints_for_column"})
    /\ Call.column_name = Status
    /\ RulesOf(Call.expectations) =
          << InSet(Status, StrList(<<<<"A">>, <<"B">>, <<"C">>>>), LobMD),
             MatchRegex(Status, PyStr(<<"[", "A", "-", "Z", "]">>), LobME) >>
    /\ retval = StrList(<<<<"A">>, <<"B">>, <<"C">>>>)

(***************************************************************************)
(* C15.  extract_metadata_hints merges across rules: two expectations for  *)
(* the same column, one with meta.lob and one with meta.states, give one   *)
(* entry for the column holding both kinds with their lists, and a pass of *)
(* the loop never removes a kind an earlier expectation contributed for    *)
(* the column (a kind the pass does not supply keeps its list).            *)
(***************************************************************************)
\* the hint list of the given kind that rule supplies, or Absent
Contribution(rule, kind) ==
    LET meta == Get(rule, "meta", EmptyDict)
        description == Get(meta, "description", PyStr(<<>>))
    IN  IF kind = "description_examples"
        THEN IF Truthy(description) THEN ExamplesHint(description.v)
             ELSE Absent
        ELSE ListHint(meta, kind)

\* rule names column c
Names(rule, c) == Get(Get(rule, "kwargs", EmptyDict), "column", PyNone) = c

\* a pass of the loop of extract_metadata_hints that ends normally
HintsPass ==
    /\ InScan("extract_metadata_hints")
    /\ pc' = "running"

C15_NothingRemoved ==
    HintsPass =>
       LET rule == Top.items[Top.idx + 1]
           before == Top.acc
           after == stack'[Len(stack)].acc
       IN  \A c \in DOMAIN before :
              /\ c \in DOMAIN after
              /\ Keys(before[c]) \subseteq Keys(after[c])
              /\ \A kind \in Keys(before[c]) :
                    (~Names(rule, c) \/ Contribution(rule, kind) = Absent)
                       => after[c].v[kind] = before[c].v[kind]

C15_AllKindsKept ==
    Returned({"extract_metadata_hints"}) =>
       \A c \in Columns : \A kind \in HintKinds :
          LET rules == RulesOf(Call.expectations)
              hits == {k \in 1..Len(rules) :
                         /\ Names(rules[k], c)
                         /\ Contribution(rules[k], kind) # Absent}
          IN  IF hits = {}
              THEN c \in DOMAIN retval.v => kind \notin Keys(retval.v[c])
              ELSE /\ c \in DOMAIN retval.v
                   /\ retval.v[c].v[kind] =
                         Contribution(rules[Largest(hits)], kind)

C15_HintsMerged == []C15_AllKindsKept /\ [][C15_NothingRemoved]_vars

\* lob from the first rule for Status, states from the second: one entry
C15_Witness ==
    /\ Returned({"extract_metadata_hints"})
    /\ RulesOf(Call.expectations) =
          << InSet(Status, StrList(<<<<"A">>, <<"B">>, <<"C">>>>), LobMD),
             InSet(Status, StrList(<<MemberId, <<"X", "1">>>>), StatesNYNJ) >>
    /\ retval =
          PyDict(Status :>
             PyDict([lob |-> StrList(<<<<"M", "D">>>>),
                     states |-> StrList(<<<<"N", "Y">>, <<"N", "J">>>>),
                     description_examples |-> Absent]))

(***************************************************************************)
(* C16.  For a suite that is None, an empty mapping, a mapping without the *)
(* `expectations` key or a mapping with an empty `expectations` list, each *)
(* extract_* function returns the empty mapping and each get_*_for_column  *)
(* function returns None; none of them raises.                             *)
(***************************************************************************)
EmptySuites ==
    {PyNone, Suite(Absent, Absent), Suite(PyStr(<<"s">>), Absent),
     Suite(Absent, PyList(<<>>))}

\* the call was given an empty suite
OnEmptySuite ==
    /\ Len(stack) >= 1
    /\ Call.fn \in ExtractFns \cup GetFns
    /\ Call.expectations \in EmptySuites

C16_EmptyResult ==
    /\ (OnEmptySuite /\ Returned(ExtractFns)) => retval = PyDict(<<>>)
    /\ (OnEmptySuite /\ Returned(GetFns)) => retval = PyNone
    /\ (OnEmptySuite /\ pc = "running") =>
          \/ Top.at \in {"entry", "call"}
          \/ Top.at = "loop" /\ Top.idx = Len(Top.items)

C16_NoRaise == OnEmptySuite => pc' # "raised"

C16_EmptySuites == []C16_EmptyResult /\ [][C16_NoRaise]_vars

\* extract_value_sets(None) has returned {}
C16_Witness ==
    /\ Returned({"extract_value_sets"})
    /\ Call.expectations = PyNone
    /\ retval = PyDict(<<>>)

(***************************************************************************)
(* C17.  The extract_* functions are total on malformed suites: with an    *)
(* `expectations` value that is not a list, list items that are not        *)
(* mappings, or kwargs or meta that are absent or not mappings, no step of *)
(* an extract_* call raises.                                               *)
(***************************************************************************)
C17_NoStepRaises ==
    (pc = "running" /\ Call.fn \in ExtractFns) => pc' # "raised"

C17_TotalOnMalformed == [][C17_NoStepRaises]_vars

(***************************************************************************)
(* C18.  As claimed: for a description holding "Ex:" or "Example:", the    *)
(* examples are the comma-separated tokens of the text after the marker up *)
(* to the next full stop, each trimmed, the non-empty ones of at most 50   *)
(* characters kept in order; without a marker there are no examples.       *)
(***************************************************************************)
Markers == {ExMarker, ExampleMarker}

\* the text after the first occurrence of marker m
AfterMarker(d, m) == Slice(d, FindSub(d, m) + Len(m), Len(d))

\* text up to the first occurrence of one of stops, all of it without one
UpToFirst(text, stops) ==
    LET at == {k \in 0..(Len(text) - 1) :
                 \E s \in stops : Slice(text, k, k + Len(s)) = s}
    IN  Slice(text, 0, IF at = {} THEN Len(text)
                       ELSE CHOOSE k \in at : \A h \in at : k <= h)

\* the comma-separated tokens of text, trimmed, those of 1..50 characters
TrimmedTokens(text) ==
    LET pieces == SplitComma(text)
        trimmed == [k \in 1..Len(pieces) |-> StripChars(pieces[k], Whitespace)]
        Fits(v) == Len(v) >= 1 /\ Len(v) <= 50
    IN  SelectSeq(trimmed, Fits)

ExamplesReturned == Returned({"_extract_examples_from_description"})

C18_ExamplesAfterMarker ==
    ExamplesReturned =>
       LET d == Call.description.v
           present == {m \in Markers : Contains(d, m)}
       IN  IF present = {} THEN retval = PyList(<<>>)
           ELSE \E m \in present :
                   retval = StrList(TrimmedTokens(
                               UpToFirst(AfterMarker(d, m), {<<".">>})))

\* C18 as amended: the marker is "Ex:" when the description holds it and
\* "Example:" otherwise, and the text runs from its first occurrence to the
\* next full stop or the next occurrence of the same marker, whichever
\* comes first.
C18_ExamplesUpToStopOrMarker ==
    ExamplesReturned =>
       LET d == Call.description.v
           m == IF Contains(d, ExMarker) THEN ExMarker ELSE ExampleMarker
       IN  IF ~Contains(d, m) THEN retval = PyList(<<>>)
           ELSE retval = StrList(TrimmedTokens(
                            UpToFirst(AfterMarker(d, m), {<<".">>, m})))

\* "Valid LOBs. Ex: MD, ME, MP. See notes." has given MD, ME, MP
C18_Witness ==
    /\ ExamplesReturned
    /\ Call.description = PyStr(LobDescription)
    /\ retval = StrList(<<<<"M", "D">>, <<"M", "E">>, <<"M", "P">>>>)

(***************************************************************************)
(* C22.  _looks_like_column_name(v) returns True if and only if v is empty *)
(* or blank, or v equals an entry of the denylist ignoring case, or v      *)
(* holds an underscore, is entirely uppercase (none of its characters is a *)
(* lowercase letter, which is what v.upper() == v tests) and splits into   *)
(* at most 4 whitespace-separated tokens.  It returns False for every      *)
(* other string, "X1" and "a_b" among them.                                *)
(***************************************************************************)
HeuristicReturned ==
    Done /\ Len(stack) = 1 /\ Call.fn = "_looks_like_column_name"

Blank(v) == \A k \in 1..Len(v) : v[k] \in Whitespace

SameIgnoringCase(a, b) ==
    /\ Len(a) = Len(b)
    /\ \A k \in 1..Len(a) : Lower(<<a[k]>>) = Lower(<<b[k]>>)

Denylisted(v) ==
    \E k \in 1..Len(suspicious_patterns) :
       SameIgnoringCase(v, suspicious_patterns[k])

EntirelyUppercase(v) == \A k \in 1..Len(v) : v[k] \notin CharsOf(LowerLetters)

\* the number of whitespace-separated tokens, counted at their last character
TokenCount(v) ==
    Cardinality({k \in 1..Len(v) :
                   /\ v[k] \notin Whitespace
                   /\ (k = Len(v) \/ v[k + 1] \in Whitespace)})

LooksLikePlaceholder(v) ==
    \/ Blank(v)
    \/ Denylisted(v)
    \/ /\ \E k \in 1..Len(v) : v[k] = "_"
       /\ EntirelyUppercase(v)
       /\ TokenCount(v) <= 4

C22_PlaceholderHeuristic ==
    HeuristicReturned =>
       /\ retval = PyBool(LooksLikePlaceholder(Call.value.v))
       /\ Call.value.v \in {<<"X", "1">>, <<"a", "_", "b">>}
             => retval = PyBool(FALSE)

\* "A_ B B B", four tokens, has been judged a placeholder
C22_Witness ==
    /\ HeuristicReturned
    /\ Call.value = PyStr(Words(MaxColumnNameWords))
    /\ retval = PyBool(TRUE)

(***************************************************************************)
(* C30.  Within extract_metadata_hints each hint kind is last-wins per     *)
(* column: the list stored for (column, kind) is the list of the last      *)
(* expectation in suite order that supplies the kind, with no element-wise *)
(* union of lists.  Every expectation with a non-empty description         *)
(* supplies description_examples, as an empty list when the description    *)
(* has no example marker, and so replaces the examples an earlier          *)
(* expectation gave for the column.                                        *)
(***************************************************************************)
PlanWithExamples ==
    InSet(Plan, StrList(<<MemberId, <<" ">>, <<"d", "a", "t", "e">>>>),
          Meta(Absent, Absent, PyStr(LobDescription)))

PlanWithoutMarker ==
    MatchRegex(Plan, PyStr(<<"\\", "d">>),
               Meta(Absent, Absent, PyStr(<<"n", "o", "n", "e">>)))

StatusLobMD == InSet(Status, StrList(<<<<"A">>, <<"B">>, <<"C">>>>), LobMD)

StatusLobME == MatchRegex(Status, PyStr(<<"[", "A", "-", "Z", "]">>), LobME)

\* the description of rule is a non-empty str without "Ex:" and "Example:"
PlainDescription(rule) ==
    LET description ==
            Get(Get(rule, "meta", EmptyDict), "description", PyStr(<<>>))
    IN  /\ description.t = "str"
        /\ Len(description.v) > 0
        /\ ~Contains(description.v, ExMarker)
        /\ ~Contains(description.v, ExampleMarker)

\* a pass stores what the expectation supplies, whatever was stored before
C30_PassReplaces ==
    HintsPass =>
       LET rule == Top.items[Top.idx + 1]
           after == stack'[Len(stack)].acc
       IN  \A c \in Columns :
              Names(rule, c) =>
                 /\ \A kind \in HintKinds :
                       Contribution(rule, kind) # Absent
                          => /\ c \in DOMAIN after
                             /\ after[c].v[kind] = Contribution(rule, kind)
                 /\ PlainDescription(rule)
                       => /\ c \in DOMAIN after
                          /\ after[c].v["description_examples"] = PyList(<<>>)

C30_Suites ==
    Returned({"extract_metadata_hints"}) =>
       /\ RulesOf(Call.expectations) = <<PlanWithExamples, PlanWithoutMarker>>
             => retval.v[Plan].v["description_examples"] = PyList(<<>>)
       /\ RulesOf(Call.expectations) = <<StatusLobMD, StatusLobME>>
             => retval.v[Status].v["lob"] = StrList(<<<<"M", "E">>>>)
       /\ RulesOf(Call.expectations) = <<StatusLobME, StatusLobMD>>
             => retval.v[Status].v["lob"] = StrList(<<<<"M", "D">>>>)

C30_KindLastWins == []C30_Suites /\ [][C30_PassReplaces]_vars

\* the examples MD, ME, MP of the first rule for Plan have been replaced by
\* the empty list of the second
C30_Witness ==
    /\ Returned({"extract_metadata_hints"})
    /\ RulesOf(Call.expectations) = <<PlanWithExamples, PlanWithoutMarker>>
    /\ retval =
          PyDict(Plan :>
             PyDict([lob |-> Absent, states |-> Absent,
                     description_examples |-> PyList(<<>>)]))

(***************************************************************************)
(* BaselineExpectationGenerator (gx_baseline.py) and map_to_gx_spark_type  *)
(* (type_mappings.py).  The nullable mapping of a column is a dict whose   *)
(* payload lists its items in the order the mapping holds them, as         *)
(* nullable.items() yields them.                                           *)
(***************************************************************************)
\* a str.join(parts)
RECURSIVE Join(_, _)
Join(a, parts) ==
    IF parts = <<>> THEN <<>>
    ELSE IF Len(parts) = 1 THEN parts[1]
    ELSE parts[1] \o a \o Join(a, Tail(parts))

\* the mapping of map_to_gx_spark_type, UMF type and PySpark type name
gx_spark_types ==
    << <<<<"V", "A", "R", "C", "H", "A", "R">>,
         <<"S", "t", "r", "i", "n", "g", "T", "y", "p", "e">>>>,
       <<<<"S", "T", "R", "I", "N", "G">>,
         <<"S", "t", "r", "i", "n", "g", "T", "y", "p", "e">>>>,
       <<<<"I", "N", "T", "E", "G", "E", "R">>,
         <<"I", "n", "t", "e", "g", "e", "r", "T", "y", "p", "e">>>>,
       <<<<"I", "N", "T">>,
         <<"I", "n", "t", "e", "g", "e", "r", "T", "y", "p", "e">>>>,
       <<<<"B", "I", "G", "I", "N", "T">>,
         <<"L", "o", "n", "g", "T", "y", "p", "e">>>>,
       <<<<"S", "M", "A", "L", "L", "I", "N", "T">>,
         <<"S", "h", "o", "r", "t", "T", "y", "p", "e">>>>,
       <<<<"T", "I", "N", "Y", "I", "N", "T">>,
         <<"B", "y", "t", "e", "T", "y", "p", "e">>>>,
       <<<<"D", "E", "C", "I", "M", "A", "L">>,
         <<"D", "e", "c", "i", "m", "a", "l", "T", "y", "p", "e">>>>,
       <<<<"F", "L", "O", "A", "T">>,
         <<"F", "l", "o", "a", "t", "T", "y", "p", "e">>>>,
       <<<<"D", "O", "U", "B", "L", "E">>,
         <<"D", "o", "u", "b", "l", "e", "T", "y", "p", "e">>>>,
       <<<<"B", "O", "O", "L", "E", "A", "N">>,
         <<"B", "o", "o", "l", "e", "a", "n", "T", "y", "p", "e">>>>,
       <<<<"D", "A", "T", "E">>,
         <<"S", "t", "r", "i", "n", "g", "T", "y", "p", "e">>>>,
       <<<<"T", "I", "M", "E", "S", "T", "A", "M", "P">>,
         <<"T", "i", "m", "e", "s", "t", "a", "m", "p", "T", "y", "p", "e">>>> >>

\* mapping.get(data_type.upper(), "StringType")
map_to_gx_spark_type(data_type) ==
    LET hits == {k \in 1..Len(gx_spark_types) :
                   gx_spark_types[k][1] = Upper(data_type)}
    IN  IF hits = {} THEN <<"S", "t", "r", "i", "n", "g", "T", "y", "p", "e">>
        ELSE gx_spark_types[CHOOSE k \in hits : TRUE][2]

\* "meta": {"description": ..., "severity": ..., "generated_from": "baseline"}
BaselineMeta(description, severity) ==
    PyDict([description |-> PyStr(description), severity |-> PyStr(severity),
            generated_from |-> PyStr(<<"b", "a", "s", "e", "l", "i", "n", "e">>)])

BaselineExpectation(type, kwargs, meta) ==
    PyDict([type |-> PyStr(type), kwargs |-> PyDict(kwargs), meta |-> meta])

column_count_type ==
    <<"e", "x", "p", "e", "c", "t", "_", "t", "a", "b", "l", "e", "_", "c",
      "o", "l", "u", "m", "n", "_", "c", "o", "u", "n", "t", "_", "t", "o",
      "_", "e", "q", "u", "a", "l">>

ordered_list_type ==
    <<"e", "x", "p", "e", "c", "t", "_", "t", "a", "b", "l", "e", "_", "c",
      "o", "l", "u", "m", "n", "s", "_", "t", "o", "_", "m", "a", "t", "c",
      "h", "_", "o", "r", "d", "e", "r", "e", "d", "_", "l", "i", "s", "t">>

column_exists_type ==
    <<"e", "x", "p", "e", "c", "t", "_", "c", "o", "l", "u", "m", "n", "_",
      "t", "o", "_", "e", "x", "i", "s", "t">>

of_type_type ==
    <<"e", "x", "p", "e", "c", "t", "_", "c", "o", "l", "u", "m", "n", "_",
      "v", "a", "l", "u", "e", "s", "_", "t", "o", "_", "b", "e", "_", "o",
      "f", "_", "t", "y", "p", "e">>

not_null_type ==
    <<"e", "x", "p", "e", "c", "t", "_", "c", "o", "l", "u", "m", "n", "_",
      "v", "a", "l", "u", "e", "s", "_", "t", "o", "_", "n", "o", "t", "_",
      "b", "e", "_", "n", "u", "l", "l">>

lengths_type ==
    <<"e", "x", "p", "e", "c", "t", "_", "c", "o", "l", "u", "m", "n", "_",
      "v", "a", "l", "u", "e", "_", "l", "e", "n", "g", "t", "h", "s", "_",
      "t", "o", "_", "b", "e", "_", "b", "e", "t", "w", "e", "e", "n">>

critical == <<"c", "r", "i", "t", "i", "c", "a", "l">>

\* umf_data.get("columns", [])
ColumnsOf(umf_data) == Get(umf_data, "columns", PyList(<<>>)).v

\* a variant: the ordered list holds the column names in reverse
generate_structural_reversed(umf_data) ==
    LET columns == ColumnsOf(umf_data)
        n == Len(columns)
        column_names == [k \in 1..n |-> columns[n + 1 - k].v["name"]]
    IN  IF n > 0
        THEN << PyDict([type |-> PyStr(column_count_type),
                        kwargs |-> PyDict([value |-> PyInt(n)]),
                        meta |-> PyDict(<<>>)]),
                PyDict([type |-> PyStr(ordered_list_type),
                        kwargs |-> PyDict([column_list |-> PyList(column_names)]),
                        meta |-> PyDict(<<>>)]) >>
        ELSE <<>>

\* _generate_structural_expectations(umf_data)
generate_structural_expectations(umf_data) ==
    LET columns == ColumnsOf(umf_data)
        column_names == [k \in 1..Len(columns) |-> columns[k].v["name"]]
    IN  IF Len(columns) > 0
        THEN << BaselineExpectation(column_count_type,
                   [value |-> PyInt(Len(columns))],
                   BaselineMeta(
                      <<"T", "a", "b", "l", "e", " ", "m", "u", "s", "t",
                        " ", "h", "a", "v", "e", " ", "e", "x", "a", "c",
                        "t", "l", "y", " ">>
                         \o Dec(Len(columns))
                         \o <<" ", "c", "o", "l", "u", "m", "n", "s">>,
                      critical)),
                BaselineExpectation(ordered_list_type,
                   [column_list |-> PyList(column_names)],
                   BaselineMeta(
                      <<"T", "a", "b", "l", "e", " ", "c", "o", "l", "u",
                        "m", "n", "s", " ", "m", "u", "s", "t", " ", "m",
                        "a", "t", "c", "h", " ", "e", "x", "p", "e", "c",
                        "t", "e", "d", " ", "s", "c", "h", "e", "m", "a",
                        " ", "i", "n", " ", "o", "r", "d", "e", "r">>,
                      critical)) >>
        ELSE <<>>

\* [lob for lob, is_null in nullable.items() if not is_null]
RequiredLobs(nullable) ==
    LET NotNull(item) == ~Truthy(item[2])
        required == SelectSeq(nullable.v, NotNull)
    IN  [k \in 1..Len(required) |-> required[k][1]]

\* column.get("max_length") or column.get("length")
MaxLengthOf(column) ==
    IF Truthy(Get(column, "max_length", PyNone))
    THEN Get(column, "max_length", PyNone)
    ELSE Get(column, "length", PyNone)

\* generate_baseline_column_expectations(column)
generate_baseline_column_expectations(column) ==
    LET column_name == column.v["name"]
        data_type == Get(column, "data_type", PyStr(<<"S", "T", "R", "I", "N", "G">>)).v
        gx_type == map_to_gx_spark_type(data_type)
        nullable == Get(column, "nullable", PyDict(<<>>))
        required_lobs == RequiredLobs(nullable)
        max_length == MaxLengthOf(column)
    IN  << BaselineExpectation(column_exists_type,
              [column |-> column_name],
              BaselineMeta(
                 <<"C", "o", "l", "u", "m", "n", " ">> \o column_name.v
                    \o <<" ", "m", "u", "s", "t", " ", "e", "x", "i", "s",
                         "t", " ", "i", "n", " ", "t", "a", "b", "l", "e",
                         " ", "s", "c", "h", "e", "m", "a">>,
                 critical)),
           BaselineExpectation(of_type_type,
              [column |-> column_name, type_ |-> PyStr(gx_type)],
              BaselineMeta(
                 <<"C", "o", "l", "u", "m", "n", " ">> \o column_name.v
                    \o <<" ", "m", "u", "s", "t", " ", "b", "e", " ">> \o gx_type
                    \o <<" ", "(", "f", "r", "o", "m", " ", "U", "M", "F",
                         ":", " ">> \o data_type \o <<")">>,
                 <<"i", "n", "f", "o">>)) >>
        \o (IF Len(nullable.v) > 0 /\ Len(required_lobs) > 0
            THEN << PyDict([type |-> PyStr(not_null_type),
                     kwargs |-> PyDict([column |-> column_name]),
                     meta |-> PyDict(
                        [description |-> PyStr(
                            <<"C", "o", "l", "u", "m", "n", " ">> \o column_name.v
                            \o <<" ", "i", "s", " ", "r", "e", "q", "u",
                                 "i", "r", "e", "d", " ", "(", "n", "u",
                                 "l", "l", "a", "b", "l", "e", "=", "f",
                                 "a", "l", "s", "e", ")", " ", "f", "o",
                                 "r", " ", "L", "O", "B", "s", ":", " ">>
                            \o Join(<<",", " ">>,
                                    [k \in 1..Len(required_lobs) |->
                                       required_lobs[k].v])),
                         severity |-> PyStr(critical),
                         lob |-> PyList(required_lobs),
                         generated_from |-> PyStr(<<"b", "a", "s", "e", "l", "i", "n", "e">>)])]) >>
            ELSE <<>>)
        \o (IF Truthy(max_length)
            THEN << BaselineExpectation(lengths_type,
                       [column |-> column_name, max_value |-> max_length],
                       BaselineMeta(
                          <<"C", "o", "l", "u", "m", "n", " ">> \o column_name.v
                             \o <<" ", "v", "a", "l", "u", "e", "s", " ",
                                  "m", "u", "s", "t", " ", "n", "o", "t",
                                  " ", "e", "x", "c", "e", "e", "d", " ">>
                             \o Str(max_length)
                             \o <<" ", "c", "h", "a", "r", "a", "c", "t",
                                  "e", "r", "s", " ", "(", "f", "r", "o",
                                  "m", " ", "U", "M", "F", " ", "m", "a",
                                  "x", "_", "l", "e", "n", "g", "t", "h",
                                  "/", "l", "e", "n", "g", "t", "h", ")">>,
                          <<"w", "a", "r", "n", "i", "n", "g">>)) >>
            ELSE <<>>)
        \o (IF Upper(data_type) = <<"D", "A", "T", "E">>
            THEN << BaselineExpectation(match_strftime_type,
                       [column |-> column_name,
                        strftime_format |-> PyStr(<<"%", "Y", "%", "m", "%", "d">>)],
                       BaselineMeta(
                          <<"C", "o", "l", "u", "m", "n", " ">> \o column_name.v
                             \o <<" ", "m", "u", "s", "t", " ", "m", "a",
                                  "t", "c", "h", " ", "Y", "Y", "Y", "Y",
                                  "M", "M", "D", "D", " ", "d", "a", "t",
                                  "e", " ", "f", "o", "r", "m", "a", "t",
                                  " ", "(", "s", "t", "a", "n", "d", "a",
                                  "r", "d", " ", "f", "o", "r", " ", "D",
                                  "A", "T", "E", " ", "t", "y", "p", "e",
                                  ")">>,
                          <<"w", "a", "r", "n", "i", "n", "g">>)) >>
            ELSE <<>>)

(***************************************************************************)
(* The calls of generate_baseline_expectations and the UMF documents they  *)
(* are given.                                                              *)
(***************************************************************************)
Column(name, data_type, nullable, max_length, length) ==
    PyDict([name |-> name, data_type |-> data_type, nullable |-> nullable,
            max_length |-> max_length, length |-> length])

\* {"medicare": a, "medicaid": b}
Nullable(a, b) ==
    PyDict(<< <<PyStr(<<"m", "e", "d", "i", "c", "a", "r", "e">>),
                PyBool(a)>>,
              <<PyStr(<<"m", "e", "d", "i", "c", "a", "i", "d">>),
                PyBool(b)>> >>)

UmfColumns ==
    { Column(PyStr(<<"i", "d">>),
             PyStr(<<"I", "N", "T", "E", "G", "E", "R">>), Absent, Absent, Absent),
      Column(PyStr(<<"n", "a", "m", "e">>),
             PyStr(<<"V", "A", "R", "C", "H", "A", "R">>), Absent, Absent, Absent),
      Column(PyStr(<<"i", "d">>),
             Absent, Absent, Absent, Absent),
      Column(PyStr(<<"b", "i", "r", "t", "h", "_", "d", "a", "t", "e">>),
             PyStr(<<"D", "A", "T", "E">>), Nullable(TRUE, TRUE), Absent, Absent),
      Column(PyStr(<<"d", "o", "b">>),
             PyStr(<<"d", "a", "t", "e">>), Absent, Absent, Absent),
      Column(PyStr(<<"c", "u", "s", "t", "o", "m", "e", "r", "_", "i", "d">>),
             PyStr(<<"I", "N", "T", "E", "G", "E", "R">>), Nullable(FALSE, TRUE), Absent, Absent),
      Column(PyStr(<<"c", "u", "s", "t", "o", "m", "e", "r", "_", "n", "a", "m", "e">>),
             PyStr(<<"V", "A", "R", "C", "H", "A", "R">>), Nullable(FALSE, FALSE), PyInt(100), Absent),
      Column(PyStr(<<"e", "m", "a", "i", "l">>),
             PyStr(<<"S", "T", "R", "I", "N", "G">>), Absent, Absent, PyInt(255)),
      Column(PyStr(<<"c", "o", "d", "e">>),
             PyStr(<<"X", "M", "L">>), Absent, PyInt(10), PyInt(255)) }

Umf(table_name, columns) ==
    PyDict([table_name |-> table_name, columns |-> columns])

\* the two-column document of the unit tests
minimal_umf ==
    Umf(PyStr(<<"t", "e", "s", "t", "_", "t", "a", "b", "l", "e">>),
        PyList(<< Column(PyStr(<<"i", "d">>), PyStr(<<"I", "N", "T", "E", "G", "E", "R">>), Absent, Absent, Absent),
                  Column(PyStr(<<"n", "a", "m", "e">>), PyStr(<<"V", "A", "R", "C", "H", "A", "R">>), Absent, Absent, Absent) >>))

UmfDocuments ==
    {Umf(PyStr(<<"t", "e", "s", "t", "_", "t", "a", "b", "l", "e">>), Absent)}
       \cup {Umf(PyStr(<<"t", "e", "s", "t", "_", "t", "a", "b", "l", "e">>), PyList(columns)) :
               columns \in UNION {[1..n -> UmfColumns] : n \in 0..MaxColumns}}

BaselineCall(umf_data, include_structural) ==
    [fn |-> "generate_baseline_expectations", umf_data |-> umf_data,
     include_structural |-> include_structural, at |-> "entry", idx |-> 0,
     expectations |-> <<>>]

InitBaseline ==
    /\ regex_pattern = <<>>
    /\ \E umf_data \in UmfDocuments, include_structural \in BOOLEAN :
          stack = <<BaselineCall(umf_data, include_structural)>>
    /\ pc = "running"
    /\ retval = PyNone
    /\ exception = "None"

\* the running call moves on with its frame changed
BaselineStep(frame) ==
    /\ stack' = <<frame>>
    /\ UNCHANGED <<regex_pattern, pc, retval, exception>>

\* if include_structural:
\*     expectations.extend(self._generate_structural_expectations(umf_data))
StructuralChecks ==
    /\ Running({"generate_baseline_expectations"}, "entry")
    /\ Top.include_structural
    /\ BaselineStep([Top EXCEPT
          !.at = "columns",
          !.expectations = @ \o generate_structural_expectations(Top.umf_data)])

\* include_structural is false: on to the columns
NoStructuralChecks ==
    /\ Running({"generate_baseline_expectations"}, "entry")
    /\ ~Top.include_structural
    /\ BaselineStep([Top EXCEPT !.at = "columns"])

\* for column in umf_data.get("columns", []):
\*     expectations.extend(self.generate_baseline_column_expectations(column))
ColumnExpectations ==
    /\ Running({"generate_baseline_expectations"}, "columns")
    /\ Top.idx < Len(ColumnsOf(Top.umf_data))
    /\ BaselineStep([Top EXCEPT
          !.idx = @ + 1,
          !.expectations = @ \o generate_baseline_column_expectations(
                                   ColumnsOf(Top.umf_data)[Top.idx + 1])])

\* return expectations
BaselineReturn ==
    /\ Running({"generate_baseline_expectations"}, "columns")
    /\ Top.idx = Len(ColumnsOf(Top.umf_data))
    /\ retval' = PyList(Top.expectations)
    /\ pc' = "done"
    /\ stack' = <<[Top EXCEPT !.at = "returned"]>>
    /\ UNCHANGED <<regex_pattern, exception>>

NextBaseline ==
    \/ StructuralChecks
    \/ NoStructuralChecks
    \/ ColumnExpectations
    \/ BaselineReturn

SpecBaseline == InitBaseline /\ [][NextBaseline]_vars

(***************************************************************************)
(* C19.  generate_baseline_expectations emits, for every column of the UMF *)
(* in column order, one expect_column_to_exist directly followed by one    *)
(* expect_column_values_to_be_of_type, and no other expectation of these   *)
(* two types.  Without include_structural no table-level expectation is    *)
(* present, so columns with only a name and a type other than DATE give    *)
(* two expectations each.  With include_structural and at least one column *)
(* the list begins with the column count, whose value is the number of     *)
(* columns, and the ordered list, whose column_list is the column names in *)
(* order.                                                                  *)
(***************************************************************************)
BaselineReturned == Returned({"generate_baseline_expectations"})

TypeIs(expectation, type) == expectation.v["type"] = PyStr(type)

\* expectation is of the given type and names the column
IsFor(expectation, type, column) ==
    /\ TypeIs(expectation, type)
    /\ expectation.v["kwargs"].v["column"] = column.v["name"]

IsTableLevel(expectation) ==
    TypeIs(expectation, column_count_type)
       \/ TypeIs(expectation, ordered_list_type)

\* a column with only a name and a type that is not DATE
IsPlain(column) ==
    /\ Keys(column) \subseteq {"name", "data_type"}
    /\ Has(column, "data_type") => Upper(column.v["data_type"].v)
                                      # <<"D", "A", "T", "E">>

C19_PerColumn ==
    BaselineReturned =>
       LET columns == ColumnsOf(Call.umf_data)
           IsColumnCheck(e) ==
              TypeIs(e, column_exists_type) \/ TypeIs(e, of_type_type)
           checks == SelectSeq(retval.v, IsColumnCheck)
       IN  /\ Len(checks) = 2 * Len(columns)
           /\ \A k \in 1..Len(columns) :
                 /\ IsFor(checks[2 * k - 1], column_exists_type, columns[k])
                 /\ IsFor(checks[2 * k], of_type_type, columns[k])
           /\ \A p \in 1..Len(retval.v) :
                 TypeIs(retval.v[p], column_exists_type)
                    => /\ p < Len(retval.v)
                       /\ TypeIs(retval.v[p + 1], of_type_type)
                       /\ retval.v[p + 1].v["kwargs"].v["column"]
                             = retval.v[p].v["kwargs"].v["column"]

C19_Structural ==
    BaselineReturned =>
       LET columns == ColumnsOf(Call.umf_data)
           out == retval.v
       IN  IF Call.include_structural
           THEN Len(columns) > 0 =>
                   /\ TypeIs(out[1], column_count_type)
                   /\ out[1].v["kwargs"].v["value"] = PyInt(Len(columns))
                   /\ TypeIs(out[2], ordered_list_type)
                   /\ out[2].v["kwargs"].v["column_list"] =
                         PyList([k \in 1..Len(columns) |->
                                   columns[k].v["name"]])
           ELSE /\ \A p \in 1..Len(out) : ~IsTableLevel(out[p])
                /\ (\A k \in 1..Len(columns) : IsPlain(columns[k]))
                      => Len(out) = 2 * Len(columns)

C19_BaselineExpectations == C19_PerColumn /\ C19_Structural

\* the two-column document of the tests with include_structural: count 2,
\* the list id, name, then two expectations for each column
C19_Witness ==
    /\ BaselineReturned
    /\ Call.umf_data = minimal_umf
    /\ Call.include_structural
    /\ Len(retval.v) = 6

=============================================================================
